---- MODULE Spec2Model ----
(***************************************************************************)
(* tcpstat: the connection tracking and classification engine.             *)
(*                                                                         *)
(* The model follows src/src/connection.c (hashtable, queue),              *)
(* src/src/filter.c (filters), src/src/group.c (groups, group lists),      *)
(* src/src/stat.c (insert / rotate / purge / switch_grouping) and the      *)
(* main loop of src/src/tcpstat.c, in non-follow mode.                     *)
(*                                                                         *)
(* Pointers are small integers: a connection is an index into conns, a     *)
(* group an index into groups; 0 is NULL.  A queue (struct cqueue) is the  *)
(* sequence of its connections, head first; a group list (struct glist)   *)
(* the sequence of its groups, head first; a bucket the sequence of its    *)
(* nodes, head first.  The evaluation counters of a filter are read by no  *)
(* decision of the tracker and are left out of the tracker's state.        *)
(***************************************************************************)
EXTENDS Integers, Sequences, FiniteSets, TLC

\* ------------------------------------------------------------------------
\* Program constants
\* ------------------------------------------------------------------------
AF_INET == 2
AF_INET6 == 10

TCP_DEAD == 0
TCP_ESTABLISHED == 1
TCP_TIME_WAIT == 6
TCP_LISTEN == 10

DIR_UNKNOWN == 0
DIR_OUTBOUND == 1
DIR_INBOUND == 2

METADATA_STATE_CHANGED == 1
METADATA_NEW == 2
METADATA_UPDATED == 4
METADATA_RESOLVED == 16
METADATA_IGNORED == 32
METADATA_WARN == 64
METADATA_TOUCHED_MASK == 7

POLICY_LOCAL == 1
POLICY_REMOTE == 2
POLICY_ADDR == 4
POLICY_PORT == 8
POLICY_STATE == 16
POLICY_AF == 64
POLICY_CLOUD == 128
POLICY_IF == 256

FILTERACT_NONE == 0
FILTERACT_GROUP == 1
FILTERACT_WARN == 2
FILTERACT_LOG == 3
FILTERACT_IGNORE == 4

CONNECTION_HASHTABLE_SIZE == 256
LINGER_MAX_TIME == 5
CLOUD_TIME_LIMIT == 2

NULL == 0

\* a uint32_t is kept as its two 16-bit halves [hi, lo], each below 2^16
HALF_MOD == 65536

\* enum filtlist_policy
LAST_MATCH == 0
FIRST_MATCH == 1

\* enum gui_view
MAIN_VIEW == 0
ENDPOINT_VIEW == 1
HELP_VIEW == 2

\* ------------------------------------------------------------------------
\* Bounds of the model
\* ------------------------------------------------------------------------
\* time() never exceeds MaxTime: the clock stops there
MaxTime == 7
\* polling rounds of one run of main
MaxRounds == 2
\* connections the scouts report in one round
MaxObs == 2
\* keys the user presses in one run of main
MaxKeys == 1
\* records the hashtable runs allocate, and nodes they link into the table
MaxPool == 3
MaxNodes == 4
\* the filters of a chain
MaxChain == 2
\* keys the user presses in a run of the views
MaxUIKeys == 3
\* calls of filter_match, filtlist_match and filtlist_action_for in a filter run
MaxEvals == 2

\* the rounds of a lingering run
MaxLingerRounds == 4

\* the connections of the runs of the connection queue
MaxQueue == 4
\* polling rounds of a listening run
MaxListenRounds == 3
\* polling rounds of a run that follows processes
MaxPidRounds == 3
\* the seconds one wait of ui_input_loop can take: the default update
\* interval, and the intervals around the lingering time
Waits == {1, LINGER_MAX_TIME, LINGER_MAX_TIME + 1}

\* ------------------------------------------------------------------------
\* Bit operations on flag words (f is a single bit, a power of two)
\* ------------------------------------------------------------------------
HasBit(w, f) == (w \div f) % 2 = 1

SetBit(w, f) == IF HasBit(w, f) THEN w ELSE w + f

RECURSIVE BitXor(_, _)
BitXor(a, b) ==
    IF a = 0 THEN b
    ELSE IF b = 0 THEN a
    ELSE ((a + b) % 2) + 2 * BitXor(a \div 2, b \div 2)

\* metadata_set_flag, metadata_is_touched, metadata_clear_flags
metadata_set_flag(flags, f) == SetBit(flags, f)

metadata_is_touched(flags) == (flags % (METADATA_TOUCHED_MASK + 1)) # 0

metadata_clear_flags(flags) == (flags \div 16) * 16

metadata_is_ignored(flags) == HasBit(flags, METADATA_IGNORED)

\* ------------------------------------------------------------------------
\* Socket addresses: [family, addr (the address bytes in network order),
\* port (host order)].  ZeroSS is a sockaddr_storage after memset 0.
\* ------------------------------------------------------------------------
SS(fam, addr, port) == [family |-> fam, addr |-> addr, port |-> port]

ZeroSS == SS(0, <<>>, 0)

V4(a, b, c, d) == <<a, b, c, d>>

V6(a, d, z) == <<a, 0, 0, d, 0, 0, 0, 0, 0, 0, 0, 0, 0, 0, 0, z>>

\* The 4-tuples the scouts can report, in the order main reads them (the
\* IPv6 table, then the IPv4 table).  The first three hash to one bucket;
\* the fourth is a listening socket, the fifth a second connection to the
\* port of that socket.
Tuples ==
    << [laddr |-> SS(AF_INET6, V6(32, 1, 1), 22),
        raddr |-> SS(AF_INET6, V6(32, 1, 2), 3746)],
       [laddr |-> SS(AF_INET, V4(10, 0, 0, 1), 22),
        raddr |-> SS(AF_INET, V4(10, 0, 0, 2), 4000)],
       [laddr |-> SS(AF_INET, V4(10, 0, 0, 3), 4198),
        raddr |-> SS(AF_INET, V4(10, 0, 0, 2), 80)],
       [laddr |-> SS(AF_INET, V4(0, 0, 0, 0), 22),
        raddr |-> SS(AF_INET, V4(0, 0, 0, 0), 0)],
       [laddr |-> SS(AF_INET, V4(10, 0, 0, 3), 22),
        raddr |-> SS(AF_INET, V4(10, 0, 0, 2), 4001)] >>

\* the tuples of the round loop and of the hashtable and filter runs
Keys == 1 .. (Len(Tuples) - 1)

\* the tuples of the listening runs: the listening socket and the two
\* connections to its port
ListenKeys == {2, 4, 5}

\* the tuples of the runs that follow processes: a connection the ignore
\* filter of the runs matches, and the listening socket
PidKeys == {3, 4}

\* the process ids of --pid, and the socket inodes of the system
FollowedPids == <<1, 2>>
SocketInodes == {1, 2}

\* /proc at one scan: the followed processes that are alive, each with the
\* socket inodes of its descriptors (a socket can be open in both)
ProcTables ==
    UNION {[alive -> {{}, {1}, SocketInodes}] : alive \in SUBSET {1, 2}}

\* The states a scout reports for a tuple: LISTEN for a socket without a
\* remote end, a connection state otherwise (TCP_DEAD is never reported, it
\* is the lingering pseudo state)
ObsStates(k) ==
    IF Tuples[k].raddr.port = 0 THEN {TCP_LISTEN}
    ELSE {TCP_ESTABLISHED, TCP_TIME_WAIT}

\* a NULL interface name
NoName == ""

\* ifname_for_addr over the interface table main has scouted at its start:
\* two interfaces with one IPv4 address each; NULL for any other address
ifname_for_addr(addr) ==
    IF addr.family = AF_INET /\ addr.addr = V4(10, 0, 0, 1) THEN "eth0"
    ELSE IF addr.family = AF_INET /\ addr.addr = V4(10, 0, 0, 3) THEN "eth1"
    ELSE NoName

\* ------------------------------------------------------------------------
\* connection.c: socket address comparison
\* ------------------------------------------------------------------------
ss_match(ss1, ss2) ==
    IF ss1.family # ss2.family THEN "MATCH_NONE"
    ELSE IF ss1.family \notin {AF_INET, AF_INET6} THEN "MATCH_NONE"
    ELSE IF ss1.addr = ss2.addr
         THEN (IF ss1.port = ss2.port THEN "MATCH_BOTH" ELSE "MATCH_ADDRESS")
         ELSE (IF ss1.port = ss2.port THEN "MATCH_PORT" ELSE "MATCH_NONE")

\* ------------------------------------------------------------------------
\* connection.c: the connection hashtable.  A table is [size, buckets];
\* buckets maps each bucket whose head is not NULL to its chain of nodes,
\* head first.  cs is the heap of connections (id -> struct tcp_connection).
\* ------------------------------------------------------------------------
chash_init == [size |-> 0, buckets |-> << >>]

\* the chain of bucket b, and the table with the chain of bucket b set
Chain(t, b) == IF b \in DOMAIN t.buckets THEN t.buckets[b] ELSE << >>

SetChain(t, b, chain) ==
    [t EXCEPT !.buckets =
        [c \in (IF chain = << >> THEN DOMAIN t.buckets \ {b}
                ELSE DOMAIN t.buckets \cup {b}) |->
            IF c = b THEN chain ELSE t.buckets[c]]]

\* ntohl of the four address bytes
Ntohl(a) == ((a[1] * 256 + a[2]) * 256 + a[3]) * 256 + a[4]

chash_fn4(laddr, raddr) ==
    (Ntohl(raddr.addr) + laddr.port + raddr.port) % CONNECTION_HASHTABLE_SIZE

\* s6_addr[0] and s6_addr[3] are single bytes: on the little-endian build
\* ntohl and htonl move each into the top byte of the word
chash_fn6(laddr, raddr) ==
    (BitXor(raddr.addr[1], raddr.addr[4]) * 16777216
        + raddr.port + laddr.port) % CONNECTION_HASHTABLE_SIZE

resolve_bucket_sa(laddr, raddr) ==
    IF laddr.family = AF_INET THEN chash_fn4(laddr, raddr)
    ELSE chash_fn6(laddr, raddr)

resolve_bucket(conn) ==
    IF conn.family = AF_INET THEN chash_fn4(conn.laddr, conn.raddr)
    ELSE chash_fn6(conn.laddr, conn.raddr)

key_cmp(cs, laddr, raddr, node) ==
    /\ node \in DOMAIN cs
    /\ ss_match(laddr, cs[node].laddr) = "MATCH_BOTH"
    /\ ss_match(raddr, cs[node].raddr) = "MATCH_BOTH"

chash_put(t, cs, id) ==
    LET b == resolve_bucket(cs[id])
    IN  [SetChain(t, b, <<id>> \o Chain(t, b)) EXCEPT !.size = @ + 1]

\* index of the first node of a chain whose key matches, 0 if none
RECURSIVE ChainFind(_, _, _, _, _)
ChainFind(cs, laddr, raddr, chain, i) ==
    IF i > Len(chain) THEN 0
    ELSE IF key_cmp(cs, laddr, raddr, chain[i]) THEN i
    ELSE ChainFind(cs, laddr, raddr, chain, i + 1)

\* chash_get that resolves the bucket with the two addresses swapped
chash_get_swapped(t, cs, laddr, raddr) ==
    LET chain == Chain(t, resolve_bucket_sa(raddr, laddr))
        i == ChainFind(cs, laddr, raddr, chain, 1)
    IN  IF i = 0 THEN NULL ELSE chain[i]

chash_get(t, cs, laddr, raddr) ==
    LET chain == Chain(t, resolve_bucket_sa(laddr, raddr))
        i == ChainFind(cs, laddr, raddr, chain, 1)
    IN  IF i = 0 THEN NULL ELSE chain[i]

DropAt(seq, i) == [j \in 1 .. (Len(seq) - 1) |-> IF j < i THEN seq[j] ELSE seq[j + 1]]

\* chash_remove that unlinks the head of the bucket whatever its key is
chash_remove_head(t, cs, laddr, raddr) ==
    LET b == resolve_bucket_sa(laddr, raddr)
        chain == Chain(t, b)
    IN  IF chain = <<>> THEN [t |-> t, rv |-> NULL]
        ELSE [t |-> [SetChain(t, b, DropAt(chain, 1)) EXCEPT !.size = @ - 1],
              rv |-> chain[1]]

\* chash_remove that decrements the size only when it unlinks the head
chash_remove_size_at_head(t, cs, laddr, raddr) ==
    LET b == resolve_bucket_sa(laddr, raddr)
        chain == Chain(t, b)
        i == ChainFind(cs, laddr, raddr, chain, 1)
    IN  IF chain = <<>> \/ i = 0 THEN [t |-> t, rv |-> NULL]
        ELSE [t |-> [SetChain(t, b, DropAt(chain, i)) EXCEPT
                        !.size = IF i = 1 THEN @ - 1 ELSE @],
              rv |-> chain[i]]

\* chash_remove that moves the last node of a bucket to its head when the
\* walk over the bucket finds no node of the key
chash_remove_rotates_on_miss(t, cs, laddr, raddr) ==
    LET b == resolve_bucket_sa(laddr, raddr)
        chain == Chain(t, b)
        i == ChainFind(cs, laddr, raddr, chain, 1)
    IN  IF chain = <<>> THEN [t |-> t, rv |-> NULL]
        ELSE IF i = 0
        THEN [t |-> SetChain(t, b, <<chain[Len(chain)]>> \o SubSeq(chain, 1, Len(chain) - 1)),
              rv |-> NULL]
        ELSE [t |-> [SetChain(t, b, DropAt(chain, i)) EXCEPT !.size = @ - 1],
              rv |-> chain[i]]

\* [t |-> the table afterwards, rv |-> the connection removed or NULL]
chash_remove(t, cs, laddr, raddr) ==
    LET b == resolve_bucket_sa(laddr, raddr)
        chain == Chain(t, b)
        i == ChainFind(cs, laddr, raddr, chain, 1)
    IN  IF chain = <<>> \/ i = 0 THEN [t |-> t, rv |-> NULL]
        ELSE [t |-> [SetChain(t, b, DropAt(chain, i)) EXCEPT !.size = @ - 1],
              rv |-> chain[i]]

chash_remove_connection(t, cs, id) ==
    chash_remove(t, cs, cs[id].laddr, cs[id].raddr)

\* chash_clear: bucket by bucket, remove the connection of the head node
\* until the bucket is empty.  The loop over the buckets goes straight to
\* the next bucket whose head is not NULL.  fuel bounds the inner loop: a
\* head whose removal removes nothing would make the code spin for ever.
Min(S) == CHOOSE x \in S : \A y \in S : x <= y

\* the loop of chash_clear that stops after the first bucket it has emptied
RECURSIVE ClearLoop_one_bucket(_, _, _, _)
ClearLoop_one_bucket(t, cs, b, fuel) ==
    LET left == {c \in DOMAIN t.buckets : c >= b}
    IN  IF left = {} \/ (b # 0 /\ b \notin left) THEN [t |-> t, done |-> TRUE]
        ELSE IF fuel = 0 THEN [t |-> t, done |-> FALSE]
        ELSE IF Chain(t, Min(left))[1] \notin DOMAIN cs THEN [t |-> t, done |-> FALSE]
        ELSE ClearLoop_one_bucket(chash_remove_connection(t, cs, Chain(t, Min(left))[1]).t,
                                  cs, Min(left), fuel - 1)

RECURSIVE ClearLoop(_, _, _, _)
ClearLoop(t, cs, b, fuel) ==
    LET left == {c \in DOMAIN t.buckets : c >= b}
    IN  IF left = {} THEN [t |-> t, done |-> TRUE]
        ELSE IF fuel = 0 THEN [t |-> t, done |-> FALSE]
        ELSE IF Chain(t, Min(left))[1] \notin DOMAIN cs THEN [t |-> t, done |-> FALSE]
        ELSE ClearLoop(chash_remove_connection(t, cs, Chain(t, Min(left))[1]).t,
                       cs, Min(left), fuel - 1)

chash_clear(t, cs) == ClearLoop(t, cs, 0, t.size + 1)

\* the nodes reachable by traversing every bucket chain, from bucket b on
RECURSIVE CountNodes(_, _)
CountNodes(t, b) ==
    LET left == {c \in DOMAIN t.buckets : c >= b}
    IN  IF left = {} THEN 0
        ELSE Len(Chain(t, Min(left))) + CountNodes(t, Min(left) + 1)

\* the connections the nodes of the table point to
TableIds(t) ==
    UNION {{t.buckets[b][i] : i \in 1 .. Len(t.buckets[b])} : b \in DOMAIN t.buckets}

\* ------------------------------------------------------------------------
\* connection.c: the connection queue
\* ------------------------------------------------------------------------
cqueue_push(q, e) == <<e>> \o q

cqueue_remove(q, e) == SelectSeq(q, LAMBDA x : x # e)

cqueue_get_size(q) == Len(q)

\* The queue as connection.c keeps it: struct cqueue {size, head} and the
\* next and prev pointers of the connections, next[c] and prev[c] for the
\* connection c.  cqueue_init gives an empty queue; the connections come
\* from connection_init, whose mem_zalloc leaves both pointers NULL.
cqueue_init_links ==
    [size |-> 0, head |-> NULL,
     next |-> [c \in 1 .. MaxQueue |-> NULL],
     prev |-> [c \in 1 .. MaxQueue |-> NULL]]

cqueue_push_links(L, elem) ==
    LET old_head == L.head
        p1 == [L.prev EXCEPT ![elem] = NULL]
        p2 == IF old_head # NULL THEN [p1 EXCEPT ![old_head] = elem] ELSE p1
    IN  [size |-> L.size + 1, head |-> elem,
         next |-> [L.next EXCEPT ![elem] = old_head], prev |-> p2]

\* the connection after conn_p keeps its prev pointer
cqueue_remove_links_no_backlink(L, conn) ==
    IF L.prev[conn] = NULL
    THEN [size |-> L.size - 1, head |-> L.next[conn],
          next |-> [L.next EXCEPT ![conn] = NULL], prev |-> L.prev]
    ELSE [size |-> L.size - 1, head |-> L.head,
          next |-> [L.next EXCEPT ![L.prev[conn]] = L.next[conn], ![conn] = NULL],
          prev |-> [L.prev EXCEPT ![conn] = NULL]]

cqueue_remove_links(L, conn) ==
    IF L.prev[conn] = NULL
    THEN LET head == L.next[conn]
             p1 == IF head # NULL THEN [L.prev EXCEPT ![head] = NULL] ELSE L.prev
         IN  [size |-> L.size - 1, head |-> head,
              next |-> [L.next EXCEPT ![conn] = NULL],
              prev |-> [p1 EXCEPT ![conn] = NULL]]
    ELSE LET tmp == L.prev[conn]
             n1 == [L.next EXCEPT ![tmp] = L.next[conn]]
             p1 == IF L.next[conn] # NULL
                   THEN [L.prev EXCEPT ![L.next[conn]] = tmp] ELSE L.prev
         IN  [size |-> L.size - 1, head |-> L.head,
              next |-> [n1 EXCEPT ![conn] = NULL],
              prev |-> [p1 EXCEPT ![conn] = NULL]]

\* cqueue_pop: the connection returned and the queue it leaves
cqueue_pop_links(L) ==
    IF L.head # NULL
    THEN [rv |-> L.head, q |-> cqueue_remove_links(L, L.head)]
    ELSE [rv |-> NULL, q |-> L]

\* the connections met from connection c on by following next, at most
\* fuel of them
RECURSIVE FollowNext(_, _, _)
FollowNext(L, c, fuel) ==
    IF c = NULL \/ fuel = 0 THEN << >>
    ELSE <<c>> \o FollowNext(L, L.next[c], fuel - 1)

\* ------------------------------------------------------------------------
\* debug.c: memory allocation without DEBUG_MEM
\* ------------------------------------------------------------------------
\* do_mem_alloc, which mem_alloc stands for: malloc succeeds (ok) or returns
\* NULL; with ENABLE_ASSERTIONS the ASSERT aborts on NULL, without it the
\* #else branch calls abort().  defs.h leaves ENABLE_ASSERTIONS undefined.
do_mem_alloc(assertions, ok) ==
    LET ptr == IF ok THEN 1 ELSE NULL
    IN  IF assertions
        THEN [aborted |-> ptr = NULL, ptr |-> ptr]
        ELSE [aborted |-> TRUE, ptr |-> ptr]

\* ------------------------------------------------------------------------
\* filter.c: filters
\* ------------------------------------------------------------------------
\* filter_init: a zeroed filter with its policy and action; group is the
\* associated group (NULL when init_group is 0).  evals and matches are the
\* uint32_t counters of filter_match.
filter_init(policy, act, grp) ==
    [action |-> act, af |-> 0, policy |-> policy, laddr |-> ZeroSS,
     raddr |-> ZeroSS, state |-> 0, ifname |-> NoName, cloud_stamp |-> 0,
     group |-> grp, evals |-> [hi |-> 0, lo |-> 0], matches |-> [hi |-> 0, lo |-> 0]]

filter_from_connection(conn, selector_flags, act, tnow) ==
    LET f0 == filter_init(selector_flags, act, NULL)
    IN  [f0 EXCEPT
           !.laddr = IF HasBit(selector_flags, POLICY_LOCAL) THEN conn.laddr ELSE @,
           !.raddr = IF HasBit(selector_flags, POLICY_REMOTE)
                        \/ HasBit(selector_flags, POLICY_CLOUD)
                     THEN conn.raddr ELSE @,
           !.state = IF HasBit(selector_flags, POLICY_STATE) THEN conn.state ELSE @,
           !.af = IF HasBit(selector_flags, POLICY_AF) THEN conn.family ELSE @,
           !.cloud_stamp = IF HasBit(selector_flags, POLICY_CLOUD) THEN tnow ELSE @,
           !.ifname = IF HasBit(selector_flags, POLICY_IF) THEN conn.ifname ELSE @]

\* match_saddr that compares the ports only of addresses of one family
match_saddr_port_same_family(filt_addr, conn_addr, pol) ==
    LET a == HasBit(pol, POLICY_ADDR)
        p == HasBit(pol, POLICY_PORT)
    IN  IF ~a /\ ~p THEN 1
        ELSE IF filt_addr.family # conn_addr.family THEN 0
        ELSE IF a /\ p THEN (IF filt_addr = conn_addr THEN 1 ELSE 0)
        ELSE IF a THEN (IF filt_addr.addr = conn_addr.addr THEN 1 ELSE 0)
        ELSE (IF filt_addr.port = conn_addr.port THEN 1 ELSE 0)

\* match_saddr: 1 when the addresses match according to the policy
match_saddr(filt_addr, conn_addr, pol) ==
    LET a == HasBit(pol, POLICY_ADDR)
        p == HasBit(pol, POLICY_PORT)
    IN  IF ~a /\ ~p THEN 1
        ELSE IF a /\ p
             THEN (IF filt_addr.family # conn_addr.family THEN 0
                   ELSE IF filt_addr = conn_addr THEN 1 ELSE 0)
        ELSE IF a
             THEN (IF filt_addr.family # conn_addr.family THEN 0
                   ELSE IF filt_addr.addr = conn_addr.addr THEN 1 ELSE 0)
        ELSE (IF filt_addr.port = conn_addr.port THEN 1 ELSE 0)

\* filter_match, its return value.  The code runs the selector categories
\* in this order, each either returning 0 or going on with a new rv.
FmState(filt, conn, rv) ==
    IF HasBit(filt.policy, POLICY_STATE) /\ filt.state = conn.state THEN 1 ELSE rv

FmRemote(filt, conn, rv) ==
    IF HasBit(filt.policy, POLICY_REMOTE)
    THEN (IF match_saddr(filt.raddr, conn.raddr, filt.policy) = 0 THEN 0
          ELSE FmState(filt, conn, 1))
    ELSE FmState(filt, conn, rv)

FmLocal(filt, conn, rv) ==
    IF HasBit(filt.policy, POLICY_LOCAL)
    THEN (IF match_saddr(filt.laddr, conn.laddr, filt.policy) = 0 THEN 0
          ELSE FmRemote(filt, conn, 1))
    ELSE FmRemote(filt, conn, rv)

FmCloud(filt, conn, rv) ==
    IF HasBit(filt.policy, POLICY_CLOUD)
    THEN (IF conn.added - filt.cloud_stamp < CLOUD_TIME_LIMIT
          THEN FmLocal(filt, conn, 1) ELSE 0)
    ELSE FmLocal(filt, conn, rv)

\* the interface category that fails for a name that is not set
FmIf_unset_fails(filt, conn, rv) ==
    IF HasBit(filt.policy, POLICY_IF)
    THEN (IF conn.ifname = NoName \/ filt.ifname = NoName THEN 0
          ELSE IF conn.ifname = filt.ifname THEN FmCloud(filt, conn, 1)
          ELSE 0)
    ELSE FmCloud(filt, conn, rv)

FmIf(filt, conn, rv) ==
    IF HasBit(filt.policy, POLICY_IF)
    THEN (IF conn.ifname = NoName \/ filt.ifname = NoName THEN FmCloud(filt, conn, 1)
          ELSE IF conn.ifname = filt.ifname THEN FmCloud(filt, conn, 1)
          ELSE 0)
    ELSE FmCloud(filt, conn, rv)

filter_match(filt, conn) ==
    IF HasBit(filt.policy, POLICY_AF)
       /\ (conn.laddr.family # filt.af \/ conn.raddr.family # filt.af)
    THEN 0
    ELSE FmIf(filt, conn, 0)

\* c++ on a uint32_t: the carry goes from the low half to the high half
\* and is lost at 2^32
U32Inc(c) ==
    IF c.lo + 1 < HALF_MOD THEN [c EXCEPT !.lo = @ + 1]
    ELSE [hi |-> (c.hi + 1) % HALF_MOD, lo |-> 0]

\* filter_match that counts every call as a match
FmCounters_counts_all(filt, conn) ==
    [filt EXCEPT !.evals = U32Inc(@), !.matches = U32Inc(@)]

\* filter_match, the filter after the call: evals++ at its start, matches++
\* before a return of non-zero, both uint32_t.  Nothing in the tracker
\* reads the counters: its operators take the value filter_match returns
\* and leave the counters as they are, the filter runs keep them.
FmCounters(filt, conn) ==
    [filt EXCEPT !.evals = U32Inc(@),
                 !.matches = IF filter_match(filt, conn) # 0 THEN U32Inc(@) ELSE @]

\* filtlist_match, the chain after the call: the filters are evaluated from
\* the head, up to the first match under FIRST_MATCH
RECURSIVE FiltlistCounters(_, _, _, _)
FiltlistCounters(list, first_match, conn, i) ==
    IF i > Len(list) THEN list
    ELSE IF filter_match(list[i], conn) # 0 /\ first_match
    THEN [list EXCEPT ![i] = FmCounters(@, conn)]
    ELSE FiltlistCounters([list EXCEPT ![i] = FmCounters(@, conn)],
                          first_match, conn, i + 1)

\* the loop of filtlist_match that breaks at the first match whatever the
\* policy of the list is
RECURSIVE FiltlistScan_breaks_always(_, _, _, _, _)
FiltlistScan_breaks_always(list, first_match, conn, i, rv) ==
    IF i > Len(list) THEN rv
    ELSE IF filter_match(list[i], conn) # 0 THEN i
    ELSE FiltlistScan_breaks_always(list, first_match, conn, i + 1, rv)

\* filtlist_match: the index in the chain of the filter returned, 0 for NULL
RECURSIVE FiltlistScan(_, _, _, _, _)
FiltlistScan(list, first_match, conn, i, rv) ==
    IF i > Len(list) THEN rv
    ELSE IF filter_match(list[i], conn) # 0
         THEN (IF first_match THEN i
               ELSE FiltlistScan(list, first_match, conn, i + 1, i))
    ELSE FiltlistScan(list, first_match, conn, i + 1, rv)

\* filtlist_match that starts at the second filter of the list
filtlist_match_skips_head(list, first_match, conn) ==
    FiltlistScan(list, first_match, conn, 2, 0)

filtlist_match(list, first_match, conn) == FiltlistScan(list, first_match, conn, 1, 0)

\* ------------------------------------------------------------------------
\* group.c: groups.  A group is [has_filter, filter, has_q, q, parent];
\* gs is the heap of groups (id -> struct group).
\* ------------------------------------------------------------------------
group_init ==
    [has_filter |-> FALSE, filter |-> filter_init(0, FILTERACT_NONE, NULL),
     has_q |-> FALSE, q |-> <<>>, parent |-> NULL]

group_match(grp, conn) ==
    IF grp.has_filter THEN filter_match(grp.filter, conn) ELSE 1

group_get_size(grp) == IF grp.has_q THEN cqueue_get_size(grp.q) ELSE 0

group_get_parent(grp) == grp.parent

\* group_get_policy that finds no filter in any group
group_get_policy_no_filter(grp) == 0

group_get_policy(grp) == IF grp.has_filter THEN grp.filter.policy ELSE 0

\* smallest id that is not allocated
NewId(heap) == CHOOSE i \in 1 .. (Cardinality(DOMAIN heap) + 1) : i \notin DOMAIN heap

Alloc(heap, id, val) == [i \in DOMAIN heap \cup {id} |-> IF i = id THEN val ELSE heap[i]]

Free(heap, id) == [i \in DOMAIN heap \ {id} |-> heap[i]]

\* ------------------------------------------------------------------------
\* The tracker (struct stat_context) as a value: operators take a context
\* X = [conns, chash, newq, groups, listen, out, filters, policy,
\*      new_count, total_count, pinfo] and return the context afterwards.
\* ------------------------------------------------------------------------
group_add_connection(X, g, id) ==
    [X EXCEPT !.groups[g].has_q = TRUE,
              !.groups[g].q = cqueue_push(@, id),
              !.conns[id].group = g]

\* group_remove_connection without the reset of the back-reference
group_remove_connection_keeps_group(X, g, id) ==
    IF ~X.groups[g].has_q THEN X
    ELSE [X EXCEPT !.groups[g].q = cqueue_remove(@, id)]

group_remove_connection(X, g, id) ==
    IF ~X.groups[g].has_q THEN X
    ELSE [X EXCEPT !.groups[g].q = cqueue_remove(@, id),
                   !.conns[id].group = NULL]

\* iterate_glist_with_connection: the first group of the list that matches
\* (the connection is added to it), NULL when none does
RECURSIVE FirstMatch(_, _, _, _)
FirstMatch(gs, list, conn, i) ==
    IF i > Len(list) THEN NULL
    ELSE IF group_match(gs[list[i]], conn) = 1 THEN list[i]
    ELSE FirstMatch(gs, list, conn, i + 1)

\* iterate_glist_with_connection that does not try the first group of the list
iterate_glist_with_connection_skips_first(X, list, id) ==
    FirstMatch(X.groups, list, X.conns[id], 2)

iterate_glist_with_connection(X, list, id) == FirstMatch(X.groups, list, X.conns[id], 1)

\* insert_new_connection that queues a listening connection like any other
\* after it has made it the parent of its group
insert_new_connection_queues_listener(X, id, tnow) ==
    LET X1 == [X EXCEPT !.conns[id].added = tnow,
                        !.conns[id].flags = metadata_set_flag(@, METADATA_NEW),
                        !.conns[id].ifname = ifname_for_addr(X.conns[id].laddr)]
        X2 == [X1 EXCEPT !.chash = chash_put(@, X1.conns, id)]
        conn == X2.conns[id]
    IN  IF metadata_is_ignored(conn.flags) THEN X2
        ELSE IF conn.state = TCP_LISTEN
        THEN LET g == NewId(X2.groups)
                 filt == filter_from_connection(conn,
                            POLICY_LOCAL + POLICY_PORT + POLICY_AF, FILTERACT_GROUP, tnow)
                 grp == [group_init EXCEPT !.parent = id, !.has_filter = TRUE,
                                           !.filter = [filt EXCEPT !.group = g]]
             IN  [X2 EXCEPT !.groups = Alloc(@, g, grp),
                            !.listen = <<g>> \o @,
                            !.newq = cqueue_push(@, id)]
        ELSE [X2 EXCEPT !.newq = cqueue_push(@, id)]

\* insert_new_connection that does not flag the connection NEW
insert_new_connection_not_new(X, id, tnow) ==
    LET X1 == [X EXCEPT !.conns[id].added = tnow,
                        !.conns[id].ifname = ifname_for_addr(X.conns[id].laddr)]
        X2 == [X1 EXCEPT !.chash = chash_put(@, X1.conns, id)]
        conn == X2.conns[id]
    IN  IF metadata_is_ignored(conn.flags) THEN X2
        ELSE IF conn.state = TCP_LISTEN
        THEN LET g == NewId(X2.groups)
                 filt == filter_from_connection(conn,
                            POLICY_LOCAL + POLICY_PORT + POLICY_AF, FILTERACT_GROUP, tnow)
                 grp == [group_init EXCEPT !.parent = id, !.has_filter = TRUE,
                                           !.filter = [filt EXCEPT !.group = g]]
             IN  [X2 EXCEPT !.groups = Alloc(@, g, grp),
                            !.listen = <<g>> \o @]
        ELSE [X2 EXCEPT !.newq = cqueue_push(@, id)]

\* insert_new_connection whose listening filter also compares the address
insert_new_connection_listen_by_addr(X, id, tnow) ==
    LET X1 == [X EXCEPT !.conns[id].added = tnow,
                        !.conns[id].flags = metadata_set_flag(@, METADATA_NEW),
                        !.conns[id].ifname = ifname_for_addr(X.conns[id].laddr)]
        X2 == [X1 EXCEPT !.chash = chash_put(@, X1.conns, id)]
        conn == X2.conns[id]
    IN  IF metadata_is_ignored(conn.flags) THEN X2
        ELSE IF conn.state = TCP_LISTEN
        THEN LET g == NewId(X2.groups)
                 filt == filter_from_connection(conn,
                            POLICY_LOCAL + POLICY_ADDR + POLICY_PORT + POLICY_AF,
                            FILTERACT_GROUP, tnow)
                 grp == [group_init EXCEPT !.parent = id, !.has_filter = TRUE,
                                           !.filter = [filt EXCEPT !.group = g]]
             IN  [X2 EXCEPT !.groups = Alloc(@, g, grp),
                            !.listen = <<g>> \o @]
        ELSE [X2 EXCEPT !.newq = cqueue_push(@, id)]

\* insert_new_connection that goes on with an ignored connection as with any
\* other
insert_new_connection_ignored_goes_on(X, id, tnow) ==
    LET X1 == [X EXCEPT !.conns[id].added = tnow,
                        !.conns[id].flags = metadata_set_flag(@, METADATA_NEW),
                        !.conns[id].ifname = ifname_for_addr(X.conns[id].laddr)]
        X2 == [X1 EXCEPT !.chash = chash_put(@, X1.conns, id)]
        conn == X2.conns[id]
    IN  IF conn.state = TCP_LISTEN
        THEN LET g == NewId(X2.groups)
                 filt == filter_from_connection(conn,
                            POLICY_LOCAL + POLICY_PORT + POLICY_AF, FILTERACT_GROUP, tnow)
                 grp == [group_init EXCEPT !.parent = id, !.has_filter = TRUE,
                                           !.filter = [filt EXCEPT !.group = g]]
             IN  [X2 EXCEPT !.groups = Alloc(@, g, grp),
                            !.listen = <<g>> \o @]
        ELSE [X2 EXCEPT !.newq = cqueue_push(@, id)]

\* insert_new_connection, non-follow mode
insert_new_connection(X, id, tnow) ==
    LET X1 == [X EXCEPT !.conns[id].added = tnow,
                        !.conns[id].flags = metadata_set_flag(@, METADATA_NEW),
                        !.conns[id].ifname = ifname_for_addr(X.conns[id].laddr)]
        X2 == [X1 EXCEPT !.chash = chash_put(@, X1.conns, id)]
        conn == X2.conns[id]
    IN  IF metadata_is_ignored(conn.flags) THEN X2
        ELSE IF conn.state = TCP_LISTEN
        THEN LET g == NewId(X2.groups)
                 filt == filter_from_connection(conn,
                            POLICY_LOCAL + POLICY_PORT + POLICY_AF, FILTERACT_GROUP, tnow)
                 grp == [group_init EXCEPT !.parent = id, !.has_filter = TRUE,
                                           !.filter = [filt EXCEPT !.group = g]]
             IN  [X2 EXCEPT !.groups = Alloc(@, g, grp),
                            !.listen = <<g>> \o @]
        ELSE [X2 EXCEPT !.newq = cqueue_push(@, id)]

\* a connection after mem_alloc, memset and the copy of the observation
NewConn(laddr, raddr, state) ==
    [family |-> laddr.family, laddr |-> laddr, raddr |-> raddr, state |-> state,
     added |-> 0, dir |-> DIR_UNKNOWN, flags |-> 0, ifname |-> NoName,
     linger_secs |-> 0, group |-> NULL]

InsertNew(X, laddr, raddr, state, tnow) ==
    LET id == NewId(X.conns)
        X1 == [X EXCEPT !.new_count = @ + 1,
                        !.conns = Alloc(@, id, NewConn(laddr, raddr, state))]
        fi == filtlist_match(X1.filters, TRUE, X1.conns[id])
        X2 == IF fi = 0 THEN X1
              ELSE IF X1.filters[fi].action = FILTERACT_IGNORE
              THEN group_add_connection(
                     [X1 EXCEPT !.conns[id].flags = metadata_set_flag(@, METADATA_IGNORED)],
                     X1.filters[fi].group, id)
              ELSE IF X1.filters[fi].action = FILTERACT_WARN
              THEN [X1 EXCEPT !.conns[id].flags = metadata_set_flag(@, METADATA_WARN)]
              ELSE X1
    IN  [conn |-> id, X |-> insert_new_connection(X2, id, tnow)]

\* the known-connection branch of insert_connection without the requeue of
\* a member whose state changed under a by-state grouping
InsertOld_no_requeue(X, id, state) ==
    LET X1 == IF metadata_is_touched(X.conns[id].flags)
              THEN [X EXCEPT !.total_count = @ - 1] ELSE X
        X2 == IF X1.conns[id].state # state
              THEN [X1 EXCEPT !.conns[id].state = state,
                              !.conns[id].flags =
                                  metadata_set_flag(@, METADATA_STATE_CHANGED)]
              ELSE X1
    IN  [conn |-> id, X |-> X2]

\* the known-connection branch of insert_connection without the correction
\* of total_count for a connection that is already touched
InsertOld_counts_double_entry(X, id, state) ==
    LET grp == X.conns[id].group
        X2 == IF X.conns[id].state # state
              THEN LET Y == [X EXCEPT !.conns[id].state = state,
                                      !.conns[id].flags =
                                          metadata_set_flag(@, METADATA_STATE_CHANGED)]
                   IN  IF grp # NULL /\ HasBit(group_get_policy(Y.groups[grp]), POLICY_STATE)
                       THEN LET Z == group_remove_connection(Y, grp, id)
                            IN  [Z EXCEPT !.newq = cqueue_push(@, id)]
                       ELSE Y
              ELSE X
    IN  [conn |-> id, X |-> X2]

InsertOld(X, id, state) ==
    LET X1 == IF metadata_is_touched(X.conns[id].flags)
              THEN [X EXCEPT !.total_count = @ - 1] ELSE X
        grp == X1.conns[id].group
        X2 == IF X1.conns[id].state # state
              THEN LET Y == [X1 EXCEPT !.conns[id].state = state,
                                       !.conns[id].flags =
                                           metadata_set_flag(@, METADATA_STATE_CHANGED)]
                   IN  IF grp # NULL /\ HasBit(group_get_policy(Y.groups[grp]), POLICY_STATE)
                       THEN LET Z == group_remove_connection(Y, grp, id)
                            IN  [Z EXCEPT !.newq = cqueue_push(@, id)]
                       ELSE Y
              ELSE X1
    IN  [conn |-> id, X |-> X2]

insert_connection(X, laddr, raddr, state, tnow) ==
    LET found == chash_get(X.chash, X.conns, laddr, raddr)
        r == IF found = NULL THEN InsertNew(X, laddr, raddr, state, tnow)
             ELSE InsertOld(X, found, state)
    IN  [r.X EXCEPT !.total_count = @ + 1,
                    !.conns[r.conn].flags = metadata_set_flag(@, METADATA_UPDATED)]

\* rotate_new_queue that tests the outbound list before the listening list
RECURSIVE rotate_new_queue_out_first(_, _)
rotate_new_queue_out_first(X, tnow) ==
    IF X.newq = <<>> THEN X
    ELSE LET id == Head(X.newq)
             X1 == [X EXCEPT !.newq = Tail(@)]
             og == iterate_glist_with_connection(X1, X1.out, id)
             lg == iterate_glist_with_connection(X1, X1.listen, id)
         IN  IF og # NULL
             THEN rotate_new_queue_out_first(
                    [group_add_connection(X1, og, id) EXCEPT !.conns[id].dir = DIR_OUTBOUND],
                    tnow)
             ELSE IF lg # NULL
             THEN rotate_new_queue_out_first(
                    [group_add_connection(X1, lg, id) EXCEPT !.conns[id].dir = DIR_INBOUND],
                    tnow)
             ELSE LET X2 == [X1 EXCEPT !.conns[id].dir = DIR_OUTBOUND]
                      g == NewId(X2.groups)
                      filt == filter_from_connection(X2.conns[id], X2.policy,
                                                     FILTERACT_GROUP, tnow)
                      grp == [group_init EXCEPT !.has_filter = TRUE,
                                 !.filter = [filt EXCEPT !.group = g]]
                      X3 == [X2 EXCEPT !.groups = Alloc(@, g, grp)]
                      X4 == group_add_connection(X3, g, id)
                  IN  rotate_new_queue_out_first([X4 EXCEPT !.out = <<g>> \o @], tnow)

\* rotate_new_queue that returns after the first connection it has placed
rotate_new_queue_one_pass(X, tnow) ==
    IF X.newq = <<>> THEN X
    ELSE LET id == Head(X.newq)
             X1 == [X EXCEPT !.newq = Tail(@)]
             lg == iterate_glist_with_connection(X1, X1.listen, id)
         IN  IF lg # NULL
             THEN [group_add_connection(X1, lg, id) EXCEPT !.conns[id].dir = DIR_INBOUND]
             ELSE LET X2 == [X1 EXCEPT !.conns[id].dir = DIR_OUTBOUND]
                      og == iterate_glist_with_connection(X2, X2.out, id)
                  IN  IF og # NULL
                      THEN group_add_connection(X2, og, id)
                      ELSE LET g == NewId(X2.groups)
                               filt == filter_from_connection(X2.conns[id], X2.policy,
                                                              FILTERACT_GROUP, tnow)
                               grp == [group_init EXCEPT !.has_filter = TRUE,
                                          !.filter = [filt EXCEPT !.group = g]]
                               X3 == [X2 EXCEPT !.groups = Alloc(@, g, grp)]
                               X4 == group_add_connection(X3, g, id)
                           IN  [X4 EXCEPT !.out = <<g>> \o @]

\* rotate_new_queue that tags every connection OUTBOUND before it tries the
\* listening groups
RECURSIVE rotate_new_queue_tags_outbound(_, _)
rotate_new_queue_tags_outbound(X, tnow) ==
    IF X.newq = <<>> THEN X
    ELSE LET id == Head(X.newq)
             X1 == [X EXCEPT !.newq = Tail(@), !.conns[id].dir = DIR_OUTBOUND]
             lg == iterate_glist_with_connection(X1, X1.listen, id)
             og == iterate_glist_with_connection(X1, X1.out, id)
         IN  IF lg # NULL
             THEN rotate_new_queue_tags_outbound(group_add_connection(X1, lg, id), tnow)
             ELSE IF og # NULL
             THEN rotate_new_queue_tags_outbound(group_add_connection(X1, og, id), tnow)
             ELSE LET g == NewId(X1.groups)
                      filt == filter_from_connection(X1.conns[id], X1.policy,
                                                     FILTERACT_GROUP, tnow)
                      grp == [group_init EXCEPT !.has_filter = TRUE,
                                 !.filter = [filt EXCEPT !.group = g]]
                      X3 == [X1 EXCEPT !.groups = Alloc(@, g, grp)]
                      X4 == group_add_connection(X3, g, id)
                  IN  rotate_new_queue_tags_outbound([X4 EXCEPT !.out = <<g>> \o @], tnow)

\* rotate_new_queue
RECURSIVE rotate_new_queue(_, _)
rotate_new_queue(X, tnow) ==
    IF X.newq = <<>> THEN X
    ELSE LET id == Head(X.newq)
             X1 == [X EXCEPT !.newq = Tail(@)]
             lg == iterate_glist_with_connection(X1, X1.listen, id)
         IN  IF lg # NULL
             THEN rotate_new_queue(
                    [group_add_connection(X1, lg, id) EXCEPT !.conns[id].dir = DIR_INBOUND],
                    tnow)
             ELSE LET X2 == [X1 EXCEPT !.conns[id].dir = DIR_OUTBOUND]
                      og == iterate_glist_with_connection(X2, X2.out, id)
                  IN  IF og # NULL
                      THEN rotate_new_queue(group_add_connection(X2, og, id), tnow)
                      ELSE LET g == NewId(X2.groups)
                               filt == filter_from_connection(X2.conns[id], X2.policy,
                                                              FILTERACT_GROUP, tnow)
                               grp == [group_init EXCEPT !.has_filter = TRUE,
                                          !.filter = [filt EXCEPT !.group = g]]
                               X3 == [X2 EXCEPT !.groups = Alloc(@, g, grp)]
                               X4 == group_add_connection(X3, g, id)
                           IN  rotate_new_queue([X4 EXCEPT !.out = <<g>> \o @], tnow)

\* do_lingering that drops a connection at its deadline already
do_lingering_at_deadline(conn, tnow) ==
    IF conn.state # TCP_DEAD
    THEN [conn |-> [conn EXCEPT !.linger_secs = tnow + LINGER_MAX_TIME,
                                !.state = TCP_DEAD],
          rv |-> 0]
    ELSE [conn |-> conn, rv |-> IF conn.linger_secs <= tnow THEN 1 ELSE 0]

\* do_lingering that sets the deadline and leaves the state as it is
do_lingering_keeps_state(conn, tnow) ==
    IF conn.state # TCP_DEAD
    THEN [conn |-> [conn EXCEPT !.linger_secs = tnow + LINGER_MAX_TIME], rv |-> 0]
    ELSE [conn |-> conn, rv |-> IF conn.linger_secs < tnow THEN 1 ELSE 0]

\* do_lingering that leaves a connection that has lingered before the
\* deadline it had
do_lingering_keeps_deadline(conn, tnow) ==
    IF conn.state # TCP_DEAD
    THEN [conn |-> [conn EXCEPT !.linger_secs = IF @ # 0 THEN @
                                                 ELSE tnow + LINGER_MAX_TIME,
                                !.state = TCP_DEAD],
          rv |-> 0]
    ELSE [conn |-> conn, rv |-> IF conn.linger_secs < tnow THEN 1 ELSE 0]

\* do_lingering: [conn |-> the connection afterwards, rv |-> 1 when the
\* connection can be dropped]
do_lingering(conn, tnow) ==
    IF conn.state # TCP_DEAD
    THEN [conn |-> [conn EXCEPT !.linger_secs = tnow + LINGER_MAX_TIME,
                                !.state = TCP_DEAD],
          rv |-> 0]
    ELSE [conn |-> conn, rv |-> IF conn.linger_secs < tnow THEN 1 ELSE 0]

\* purge_closed_from_group: the loop over the members, each reached over
\* the next pointer read before the member is unlinked
RECURSIVE PurgeMembers(_, _, _, _, _, _, _)
PurgeMembers(X, g, members, i, do_linger, tnow, cnt) ==
    IF i > Len(members) THEN [X |-> X, cnt |-> cnt]
    ELSE LET id == members[i]
         IN  IF metadata_is_touched(X.conns[id].flags)
             THEN PurgeMembers(X, g, members, i + 1, do_linger, tnow, cnt)
             ELSE LET l == do_lingering(X.conns[id], tnow)
                  IN  IF do_linger /\ l.rv = 0
                      THEN PurgeMembers([X EXCEPT !.conns[id] = l.conn],
                                        g, members, i + 1, do_linger, tnow, cnt + 1)
                      ELSE LET X1 == group_remove_connection(X, g, id)
                               X2 == [X1 EXCEPT !.chash =
                                        chash_remove_connection(@, X1.conns, id).t]
                               X3 == [X2 EXCEPT !.conns = Free(@, id)]
                           IN  PurgeMembers(X3, g, members, i + 1, do_linger, tnow, cnt + 1)

purge_closed_from_group(X, g, do_linger, tnow) ==
    PurgeMembers(X, g, X.groups[g].q, 1, do_linger, tnow, 0)

\* glist_delete_grp_if_empty that takes a group without members for empty
\* whether it has a parent or not
glist_delete_grp_if_no_members(X, field, g) ==
    IF group_get_size(X.groups[g]) = 0
    THEN [X EXCEPT ![field] = SelectSeq(@, LAMBDA h : h # g),
                   !.groups = Free(@, g)]
    ELSE X

\* glist_delete_grp_if_empty on the list named by field ("listen" or "out")
glist_delete_grp_if_empty(X, field, g) ==
    IF group_get_size(X.groups[g]) = 0 /\ group_get_parent(X.groups[g]) = NULL
    THEN [X EXCEPT ![field] = SelectSeq(@, LAMBDA h : h # g),
                   !.groups = Free(@, g)]
    ELSE X

\* purge_closed_connections that does not look at the filter groups
PurgeFilters_skipped(X, i, closed_cnt, do_linger, tnow) == [X |-> X, cnt |-> closed_cnt]

\* the three loops of purge_closed_connections
RECURSIVE PurgeFilters(_, _, _, _, _)
PurgeFilters(X, i, closed_cnt, do_linger, tnow) ==
    IF i > Len(X.filters) THEN [X |-> X, cnt |-> closed_cnt]
    ELSE LET r == purge_closed_from_group(X, X.filters[i].group, do_linger, tnow)
         IN  PurgeFilters(r.X, i + 1, closed_cnt - r.cnt, do_linger, tnow)

RECURSIVE PurgeOut(_, _, _, _, _, _)
PurgeOut(X, list, i, closed_cnt, do_linger, tnow) ==
    IF i > Len(list) \/ closed_cnt <= 0 THEN [X |-> X, cnt |-> closed_cnt]
    ELSE LET r == purge_closed_from_group(X, list[i], do_linger, tnow)
         IN  PurgeOut(glist_delete_grp_if_empty(r.X, "out", list[i]),
                      list, i + 1, closed_cnt - r.cnt, do_linger, tnow)

\* the loop over the listening list that lingers an untouched parent as
\* purge_closed_from_group lingers a member
RECURSIVE PurgeListen_lingers_parent(_, _, _, _, _, _)
PurgeListen_lingers_parent(X, list, i, closed_cnt, do_linger, tnow) ==
    IF i > Len(list) \/ closed_cnt <= 0 THEN [X |-> X, cnt |-> closed_cnt]
    ELSE LET g == list[i]
             par == group_get_parent(X.groups[g])
             dead == par # NULL /\ ~metadata_is_touched(X.conns[par].flags)
             keep == dead /\ do_linger /\ do_lingering(X.conns[par], tnow).rv = 0
             X1 == IF keep
                   THEN [X EXCEPT !.conns[par] = do_lingering(X.conns[par], tnow).conn]
                   ELSE IF dead
                   THEN [X EXCEPT !.groups[g].parent = NULL,
                                  !.chash = chash_remove_connection(@, X.conns, par).t,
                                  !.conns = Free(@, par)]
                   ELSE X
             c1 == IF dead THEN closed_cnt - 1 ELSE closed_cnt
             r == purge_closed_from_group(X1, g, do_linger, tnow)
         IN  PurgeListen_lingers_parent(glist_delete_grp_if_empty(r.X, "listen", g),
                                        list, i + 1, c1 - r.cnt, do_linger, tnow)

RECURSIVE PurgeListen(_, _, _, _, _, _)
PurgeListen(X, list, i, closed_cnt, do_linger, tnow) ==
    IF i > Len(list) \/ closed_cnt <= 0 THEN [X |-> X, cnt |-> closed_cnt]
    ELSE LET g == list[i]
             par == group_get_parent(X.groups[g])
             dead == par # NULL /\ ~metadata_is_touched(X.conns[par].flags)
             X1 == IF dead
                   THEN [X EXCEPT !.groups[g].parent = NULL,
                                  !.chash = chash_remove_connection(@, X.conns, par).t,
                                  !.conns = Free(@, par)]
                   ELSE X
             c1 == IF dead THEN closed_cnt - 1 ELSE closed_cnt
             r == purge_closed_from_group(X1, g, do_linger, tnow)
         IN  PurgeListen(glist_delete_grp_if_empty(r.X, "listen", g),
                         list, i + 1, c1 - r.cnt, do_linger, tnow)

\* purge_closed_connections, non-follow mode: [X, cnt |-> the return value]
purge_closed_connections(X, closed_cnt, do_linger, tnow) ==
    LET f == PurgeFilters(X, 1, closed_cnt, do_linger, tnow)
        o == PurgeOut(f.X, f.X.out, 1, f.cnt, do_linger, tnow)
    IN  PurgeListen(o.X, o.X.listen, 1, o.cnt, do_linger, tnow)

\* switch_grouping: every member of every outbound group is popped and
\* pushed to the new queue, the outbound list is deinitialised and made
\* anew, the new queue is rotated
RECURSIVE DrainGroup(_, _)
DrainGroup(X, g) ==
    IF cqueue_get_size(X.groups[g].q) = 0 THEN X
    ELSE LET id == Head(X.groups[g].q)
         IN  DrainGroup([X EXCEPT !.groups[g].q = Tail(@),
                                  !.conns[id].group = NULL,
                                  !.newq = cqueue_push(@, id)], g)

RECURSIVE DrainList(_, _, _)
DrainList(X, list, i) ==
    IF i > Len(list) THEN X
    ELSE DrainList(DrainGroup(X, list[i]), list, i + 1)

\* glist_deinit(list, 0): every group of the list is removed and freed
glist_deinit(gs, list) == [g \in DOMAIN gs \ {list[i] : i \in 1 .. Len(list)} |-> gs[g]]

\* switch_grouping that leaves the outbound list as it is: the drained
\* groups stay on it
switch_grouping_keeps_list(X, new_grouping, tnow) ==
    IF X.policy = new_grouping THEN X
    ELSE LET X1 == DrainList(X, X.out, 1)
         IN  rotate_new_queue([X1 EXCEPT !.policy = new_grouping], tnow)

switch_grouping(X, new_grouping, tnow) ==
    IF X.policy = new_grouping THEN X
    ELSE LET X1 == DrainList(X, X.out, 1)
             X2 == [X1 EXCEPT !.groups = glist_deinit(@, X1.out),
                              !.policy = new_grouping,
                              !.out = <<>>]
         IN  rotate_new_queue(X2, tnow)

\* group_clear_metadata_flags that clears the members and not the parent
group_clear_metadata_flags_members(cs, grp) ==
    LET ids == {grp.q[i] : i \in 1 .. Len(grp.q)}
    IN  [id \in DOMAIN cs |->
            IF id \in ids THEN [cs[id] EXCEPT !.flags = metadata_clear_flags(@)]
            ELSE cs[id]]

\* group_clear_metadata_flags, clear_metadata_flags
group_clear_metadata_flags(cs, grp) ==
    LET ids == (IF grp.parent # NULL THEN {grp.parent} ELSE {})
                 \cup {grp.q[i] : i \in 1 .. Len(grp.q)}
    IN  [id \in DOMAIN cs |->
            IF id \in ids THEN [cs[id] EXCEPT !.flags = metadata_clear_flags(@)]
            ELSE cs[id]]

RECURSIVE clear_metadata_flags(_, _, _, _)
clear_metadata_flags(cs, gs, list, i) ==
    IF i > Len(list) THEN cs
    ELSE clear_metadata_flags(group_clear_metadata_flags(cs, gs[list[i]]), gs, list, i + 1)

\* the flag clearing at the end of a round of main: the listening list, the
\* outbound list, then the group of every filter of the chain
FilterGroups(filters) == [i \in 1 .. Len(filters) |-> filters[i].group]

ClearRoundFlags(X) ==
    LET c1 == clear_metadata_flags(X.conns, X.groups, X.listen, 1)
        c2 == clear_metadata_flags(c1, X.groups, X.out, 1)
        fg == SelectSeq(FilterGroups(X.filters), LAMBDA g : g # NULL)
    IN  clear_metadata_flags(c2, X.groups, fg, 1)

\* ------------------------------------------------------------------------
\* Follow-PID mode (OP_FOLLOW_PID).  ctx->pinfo is the list of the followed
\* processes, a struct pidinfo being [pid, inodetab, grp]: inodetab the set
\* of the socket inodes scout_pid has found, grp the group of the
\* connections of the process.  /proc is a function from the process ids
\* that are alive to the socket inodes their descriptors link to.
\* ------------------------------------------------------------------------
init_pidinfo(pid, g) == [pid |-> pid, inodetab |-> {}, grp |-> g]

\* parse_pids: a pidinfo with a fresh group for every process id of the
\* argument, each put at the head of ctx->pinfo
RECURSIVE parse_pids(_, _, _)
parse_pids(X, pids, i) ==
    IF i > Len(pids) THEN X
    ELSE LET g == NewId(X.groups)
         IN  parse_pids([X EXCEPT !.groups = Alloc(@, g, group_init),
                                  !.pinfo = <<init_pidinfo(pids[i], g)>> \o @],
                        pids, i + 1)

\* scout_pid: the table is emptied, then filled from /proc/<pid>/fd; -1
\* when the directory cannot be opened
scout_pid(info, proc) ==
    IF info.pid \notin DOMAIN proc
    THEN [info |-> [info EXCEPT !.inodetab = {}], rv |-> -1]
    ELSE [info |-> [info EXCEPT !.inodetab = proc[info.pid]], rv |-> 0]

\* scan_inodes: a process that cannot be scouted gets the pid -1
scan_inodes(list, proc) ==
    [i \in 1 .. Len(list) |->
        IF scout_pid(list[i], proc).rv = -1
        THEN [scout_pid(list[i], proc).info EXCEPT !.pid = -1]
        ELSE scout_pid(list[i], proc).info]

\* get_pidinfo_by_inode: the position of the first pidinfo of the list
\* whose table holds the inode, NULL when none does
RECURSIVE PidinfoScan(_, _, _)
PidinfoScan(inode, list, i) ==
    IF i > Len(list) THEN NULL
    ELSE IF inode \in list[i].inodetab THEN i
    ELSE PidinfoScan(inode, list, i + 1)

get_pidinfo_by_inode(inode, list) == PidinfoScan(inode, list, 1)

\* insert_new_connection that pushes the connection of a followed process
\* to the new queue
insert_new_connection_pid_queues(X, id, info_p, tnow) ==
    insert_new_connection(X, id, tnow)

\* insert_new_connection with the pidinfo insert_connection has found
\* (NULL in non-follow mode).  metadata.inode is written here and read
\* nowhere, the model does not keep it.
insert_new_connection_pid(X, id, info_p, tnow) ==
    IF info_p = NULL THEN insert_new_connection(X, id, tnow)
    ELSE LET X1 == [X EXCEPT !.conns[id].added = tnow,
                             !.conns[id].flags = metadata_set_flag(@, METADATA_NEW),
                             !.conns[id].ifname = ifname_for_addr(X.conns[id].laddr)]
             X2 == [X1 EXCEPT !.chash = chash_put(@, X1.conns, id)]
         IN  IF metadata_is_ignored(X2.conns[id].flags) THEN X2
             ELSE group_add_connection(X2, X2.pinfo[info_p].grp, id)

\* the new-connection branch of insert_connection once the pidinfo is found
InsertNewPid(X, laddr, raddr, state, info_p, tnow) ==
    LET id == NewId(X.conns)
        X1 == [X EXCEPT !.new_count = @ + 1,
                        !.conns = Alloc(@, id, NewConn(laddr, raddr, state))]
        fi == filtlist_match(X1.filters, TRUE, X1.conns[id])
        X2 == IF fi = 0 THEN X1
              ELSE IF X1.filters[fi].action = FILTERACT_IGNORE
              THEN group_add_connection(
                     [X1 EXCEPT !.conns[id].flags = metadata_set_flag(@, METADATA_IGNORED)],
                     X1.filters[fi].group, id)
              ELSE IF X1.filters[fi].action = FILTERACT_WARN
              THEN [X1 EXCEPT !.conns[id].flags = metadata_set_flag(@, METADATA_WARN)]
              ELSE X1
    IN  [conn |-> id, X |-> insert_new_connection_pid(X2, id, info_p, tnow)]

\* what insert_connection does after the lookups: the counting and UPDATED
CountObservation(r) ==
    [r.X EXCEPT !.total_count = @ + 1,
                !.conns[r.conn].flags = metadata_set_flag(@, METADATA_UPDATED)]

\* insert_connection, follow mode, that counts the observation it discards
insert_connection_pid_counts_discard(X, laddr, raddr, state, inode, tnow) ==
    IF chash_get(X.chash, X.conns, laddr, raddr) # NULL
    THEN CountObservation(InsertOld(X, chash_get(X.chash, X.conns, laddr, raddr), state))
    ELSE IF get_pidinfo_by_inode(inode, X.pinfo) = NULL
    THEN [X EXCEPT !.total_count = @ + 1]
    ELSE CountObservation(InsertNewPid(X, laddr, raddr, state,
                                       get_pidinfo_by_inode(inode, X.pinfo), tnow))

\* insert_connection, follow mode: an untracked tuple whose inode no
\* followed process holds is discarded
insert_connection_pid(X, laddr, raddr, state, inode, tnow) ==
    IF chash_get(X.chash, X.conns, laddr, raddr) # NULL
    THEN CountObservation(InsertOld(X, chash_get(X.chash, X.conns, laddr, raddr), state))
    ELSE IF get_pidinfo_by_inode(inode, X.pinfo) = NULL
    THEN X
    ELSE CountObservation(InsertNewPid(X, laddr, raddr, state,
                                       get_pidinfo_by_inode(inode, X.pinfo), tnow))

\* purge_closed_connections, follow mode: the loop over the pidinfos
RECURSIVE PurgePids(_, _, _, _, _)
PurgePids(X, i, closed_cnt, do_linger, tnow) ==
    IF i > Len(X.pinfo) \/ closed_cnt <= 0 THEN [X |-> X, cnt |-> closed_cnt]
    ELSE LET r == purge_closed_from_group(X, X.pinfo[i].grp, do_linger, tnow)
         IN  PurgePids(r.X, i + 1, closed_cnt - r.cnt, do_linger, tnow)

\* purge_closed_connections, follow mode: [X, cnt |-> the return value]
purge_closed_connections_pid(X, closed_cnt, do_linger, tnow) ==
    LET f == PurgeFilters(X, 1, closed_cnt, do_linger, tnow)
    IN  PurgePids(f.X, 1, f.cnt, do_linger, tnow)

\* what main does with the counts in follow mode
MainPurgePid(X, do_linger, tnow) ==
    IF X.total_count # X.chash.size /\ X.chash.size - X.total_count > 0
    THEN purge_closed_connections_pid(X, X.chash.size - X.total_count, do_linger, tnow)
    ELSE [X |-> X, cnt |-> 0]

\* free_pidinfo: the group is deinitialised and freed with the pidinfo
free_pidinfo(X, i) ==
    [X EXCEPT !.groups = Free(@, X.pinfo[i].grp),
              !.pinfo = SubSeq(@, 1, i - 1) \o SubSeq(@, i + 1, Len(@))]

\* check_dead_processes: [X, alive, freed]: alive the count it returns,
\* freed whether a pidinfo was freed.  The loop reads info_p->next of the
\* pidinfo it has just freed: the walk below is the run where the freed
\* block still holds the pointer.
RECURSIVE DeadScan(_, _, _, _)
DeadScan(X, i, alive, freed) ==
    IF i > Len(X.pinfo) THEN [X |-> X, alive |-> alive, freed |-> freed]
    ELSE IF X.pinfo[i].pid = -1 /\ group_get_size(X.groups[X.pinfo[i].grp]) = 0
    THEN DeadScan(free_pidinfo(X, i), i, alive, TRUE)
    ELSE DeadScan(X, i + 1, alive + 1, freed)

check_dead_processes(X) == DeadScan(X, 1, 0, FALSE)

\* clear_pid_metadata, then the clearing of the filters' groups
ClearRoundFlagsPid(X) ==
    clear_metadata_flags(
        clear_metadata_flags(X.conns, X.groups,
                             [i \in 1 .. Len(X.pinfo) |-> X.pinfo[i].grp], 1),
        X.groups, SelectSeq(FilterGroups(X.filters), LAMBDA g : g # NULL), 1)

\* connection_resolve: the name of the remote end is looked up and the
\* connection marked RESOLVED, unless the remote address is the any-address
IsAnyAddr(ss) == \A i \in 1 .. Len(ss.addr) : ss.addr[i] = 0

connection_resolve(conn) ==
    IF IsAnyAddr(conn.raddr) THEN conn
    ELSE [conn EXCEPT !.flags = metadata_set_flag(@, METADATA_RESOLVED)]

\* main_update: every parent and member of the listening and the outbound
\* groups is printed; print_connection_addrs resolves it when names are
\* resolved and it is not yet RESOLVED
main_update(X, resolving) ==
    LET shown == UNION {(IF X.groups[g].parent # NULL THEN {X.groups[g].parent} ELSE {})
                        \cup {X.groups[g].q[i] : i \in 1 .. Len(X.groups[g].q)} :
                        g \in {X.listen[i] : i \in 1 .. Len(X.listen)}
                              \cup {X.out[i] : i \in 1 .. Len(X.out)}}
    IN  [id \in DOMAIN X.conns |->
            IF resolving /\ id \in shown
                /\ ~HasBit(X.conns[id].flags, METADATA_RESOLVED)
            THEN connection_resolve(X.conns[id])
            ELSE X.conns[id]]

\* endpoint_update: do_group prints every outbound group by its first
\* connection, which it resolves when names are resolved and the connection
\* is not yet RESOLVED; an empty group is skipped with a warning
endpoint_update(X, resolving) ==
    LET firsts == {X.groups[X.out[i]].q[1] :
                      i \in {j \in 1 .. Len(X.out) : X.groups[X.out[j]].q # << >>}}
    IN  [id \in DOMAIN X.conns |->
            IF resolving /\ id \in firsts
                /\ ~HasBit(X.conns[id].flags, METADATA_RESOLVED)
            THEN connection_resolve(X.conns[id])
            ELSE X.conns[id]]

\* main_update, follow mode: do_print_stat_pids prints the group of every
\* pidinfo that has members
do_print_stat_pids(X, resolving) ==
    LET shown == UNION {{X.groups[X.pinfo[i].grp].q[j] :
                            j \in 1 .. Len(X.groups[X.pinfo[i].grp].q)} :
                        i \in 1 .. Len(X.pinfo)}
    IN  [id \in DOMAIN X.conns |->
            IF resolving /\ id \in shown
                /\ ~HasBit(X.conns[id].flags, METADATA_RESOLVED)
            THEN connection_resolve(X.conns[id])
            ELSE X.conns[id]]

\* help_update prints the commands and reads no connection
help_update(X) == X.conns

\* ui_update_view: the update function of the current view
ui_update_view(X, v, resolving) ==
    IF v = ENDPOINT_VIEW THEN endpoint_update(X, resolving)
    ELSE IF v = HELP_VIEW THEN help_update(X)
    ELSE main_update(X, resolving)

\* ------------------------------------------------------------------------
\* ui/view.c, ui/main_view.c, ui/endpoint_view.c, ui/help_view.c: the keys.
\* U is [X: the context, view: gui_ctx.view, saved: saved_policy].
\* ------------------------------------------------------------------------
init_main_view(U) == [U EXCEPT !.view = MAIN_VIEW]

init_help_view(U) ==
    IF U.view = HELP_VIEW THEN U ELSE [U EXCEPT !.view = HELP_VIEW]

\* init_endpoint_view, not in follow-pid mode
init_endpoint_view(U, tnow) ==
    IF U.view = ENDPOINT_VIEW THEN U
    ELSE [U EXCEPT !.saved = U.X.policy,
                   !.X = switch_grouping(U.X, POLICY_REMOTE + POLICY_ADDR, tnow),
                   !.view = ENDPOINT_VIEW]

\* deinit_endpoint_view that leaves the grouping of the endpoint view
deinit_endpoint_view_keeps_grouping(U, tnow) == U

\* deinit_endpoint_view: the view is left to the caller
deinit_endpoint_view(U, tnow) ==
    IF U.view # ENDPOINT_VIEW THEN U
    ELSE [U EXCEPT !.X = switch_grouping(U.X, U.saved, tnow)]

\* the keys of main_input that select a grouping
GroupingKeys == {"A", "a", "P", "c", "S"}

KeyPolicy(key) ==
    CASE key = "A" -> POLICY_REMOTE + POLICY_ADDR
      [] key = "a" -> POLICY_REMOTE + POLICY_ADDR + POLICY_PORT
      [] key = "P" -> POLICY_REMOTE + POLICY_PORT
      [] key = "c" -> POLICY_CLOUD + POLICY_REMOTE + POLICY_PORT
      [] key = "S" -> POLICY_STATE

\* main_input, the grouping keys: the grouping is switched in the main view
main_input(U, key, tnow) ==
    IF key \in GroupingKeys /\ U.view = MAIN_VIEW
    THEN [U EXCEPT !.X = switch_grouping(U.X, KeyPolicy(key), tnow)]
    ELSE U

\* endpoint_input: the endpoint view has no commands
endpoint_input(U, key) == U

\* ui_input_loop after getch has returned a key; view is the view the
\* function has read at its start
ui_input_loop(U, key, tnow) ==
    LET v == U.view
    IN  CASE key = "E" -> IF v # ENDPOINT_VIEW THEN init_endpoint_view(U, tnow) ELSE U
          [] key = "M" -> IF v # MAIN_VIEW
                          THEN init_main_view(IF v = ENDPOINT_VIEW
                                              THEN deinit_endpoint_view(U, tnow) ELSE U)
                          ELSE U
          [] key = "H" -> init_help_view(IF v = ENDPOINT_VIEW
                                         THEN deinit_endpoint_view(U, tnow) ELSE U)
          [] OTHER -> IF v = MAIN_VIEW THEN main_input(U, key, tnow)
                      ELSE IF v = ENDPOINT_VIEW THEN endpoint_input(U, key)
                      ELSE U

\* ------------------------------------------------------------------------
\* tcpstat.c: the configuration the command line gives, and the main loop
\* ------------------------------------------------------------------------
\* the grouping main starts with when the command line names none
DEFAULT_POLICY == POLICY_REMOTE + POLICY_ADDR

\* the grouping policies set_grouping and the keys of main_input select
GroupingPolicies ==
    { POLICY_REMOTE + POLICY_ADDR,
      POLICY_REMOTE + POLICY_ADDR + POLICY_PORT,
      POLICY_REMOTE + POLICY_PORT,
      POLICY_STATE,
      POLICY_CLOUD + POLICY_REMOTE + POLICY_ADDR,
      POLICY_CLOUD + POLICY_REMOTE + POLICY_PORT,
      POLICY_IF }

\* parse_port_filter: a filter on the remote port, built with family
\* AF_INET, with a group of its own
parse_port_filter(policy, act, port, grp) ==
    [filter_init(policy, act, grp) EXCEPT
        !.raddr = SS(AF_INET, V4(0, 0, 0, 0), port)]

\* the filter chains of the runs: none, --ignore-port 80 --warn-port 4000,
\* or --ignore-addr 0.0.0.0 (parse_addr_filter without a port), which
\* matches the listening sockets of IPv4
FilterConfigs ==
    { <<>>,
      << parse_port_filter(POLICY_REMOTE + POLICY_PORT, FILTERACT_IGNORE, 80, 1),
         parse_port_filter(POLICY_REMOTE + POLICY_PORT, FILTERACT_WARN, 4000, 2) >>,
      << [filter_init(POLICY_REMOTE + POLICY_ADDR, FILTERACT_IGNORE, 1) EXCEPT
             !.raddr = SS(AF_INET, V4(0, 0, 0, 0), 0)] >> }

VARIABLES
    conns,          \* heap of connections: id -> struct tcp_connection
    chash,          \* ctx->chash
    newq,           \* ctx->newq
    groups,         \* heap of groups: id -> struct group
    listen_groups,  \* ctx->listen_groups
    out_groups,     \* ctx->out_groups
    filters,        \* ctx->filters, a FIRST_MATCH chain
    common_policy,  \* ctx->common_policy
    new_count,      \* ctx->new_count
    total_count,    \* ctx->total_count
    pinfo,          \* ctx->pinfo, the list of followed processes
    linger,         \* OPERATION_ENABLED(ctx, OP_LINGER)
    now,            \* time(NULL)
    pc,             \* where main is
    round,          \* the round of main
    nobs,           \* the connections reported in this round (filter runs: the calls made)
    cursor,         \* the tuple the scouts reported last in this round
    rounds,         \* the rounds main runs before it is stopped
    keys,           \* the keys the user is still to press
    resolve,        \* gui_resolve_names(): OP_RESOLVE is enabled
    view,           \* gui_ctx.view
    saved_policy,   \* saved_policy of endpoint_view.c
    list_policy,    \* ctx->filters->policy
    ret,            \* what the call made last has returned
    seen            \* the tuples the scouts have reported in this round

\* ret before any call is made: [call, arg, rv]
NoRet == [call |-> "none", arg |-> 0, rv |-> 0]

vars == <<conns, chash, newq, groups, listen_groups, out_groups, filters,
          common_policy, new_count, total_count, pinfo, linger, now, pc, round, nobs, cursor, rounds, keys, resolve,
          view, saved_policy, list_policy, ret, seen>>

Ctx ==
    [conns |-> conns, chash |-> chash, newq |-> newq, groups |-> groups,
     listen |-> listen_groups, out |-> out_groups, filters |-> filters,
     policy |-> common_policy, new_count |-> new_count,
     total_count |-> total_count, pinfo |-> pinfo]

SetCtx(X) ==
    /\ conns' = X.conns
    /\ chash' = X.chash
    /\ newq' = X.newq
    /\ groups' = X.groups
    /\ listen_groups' = X.listen
    /\ out_groups' = X.out
    /\ filters' = X.filters
    /\ common_policy' = X.policy
    /\ new_count' = X.new_count
    /\ total_count' = X.total_count
    /\ pinfo' = X.pinfo

\* main up to the first round: the context is set up, parse_args has set
\* the grouping, the lingering and the filters.  A run is either a short
\* one with any configuration and a key press, or a run of one more round
\* with the default grouping and name resolution, lingering enabled and no
\* key pressed.
Init ==
    /\ conns = << >>
    /\ chash = chash_init
    /\ newq = << >>
    /\ \/ /\ rounds = MaxRounds
          /\ filters \in FilterConfigs
          /\ common_policy \in GroupingPolicies
          /\ linger \in BOOLEAN
          /\ keys = MaxKeys
          /\ resolve = FALSE
       \/ /\ rounds = MaxRounds + 1
          /\ filters = << >>
          /\ common_policy = DEFAULT_POLICY
          /\ linger = TRUE
          /\ keys = 0
          /\ resolve = TRUE
    /\ groups = [g \in {filters[i].group : i \in 1 .. Len(filters)} |-> group_init]
    /\ listen_groups = << >>
    /\ out_groups = << >>
    /\ new_count = 0
    /\ total_count = 0
    /\ pinfo = << >>
    /\ now = 0
    /\ pc = "scout"
    /\ round = 1
    /\ nobs = 0
    /\ cursor = 1
    /\ view = MAIN_VIEW
    /\ saved_policy = 0
    /\ list_policy = FIRST_MATCH
    /\ ret = NoRet
    /\ seen = {}

\* a scout reports a connection
Insert(k, st) ==
    /\ pc = "scout"
    /\ round <= rounds
    /\ nobs < MaxObs
    /\ k >= cursor
    /\ SetCtx(insert_connection(Ctx, Tuples[k].laddr, Tuples[k].raddr, st, now))
    /\ nobs' = nobs + 1
    /\ cursor' = k
    /\ seen' = seen \cup {k}
    /\ UNCHANGED <<linger, now, pc, round, rounds, keys, resolve,
                   view, saved_policy, list_policy, ret>>

\* the scouts are done: rotate_new_queue
Rotate ==
    /\ pc = "scout"
    /\ round <= rounds
    /\ SetCtx(rotate_new_queue(Ctx, now))
    /\ pc' = "rotated"
    /\ UNCHANGED <<linger, now, round, nobs, cursor, rounds, keys, resolve,
                   view, saved_policy, list_policy, ret, seen>>

\* what main does with the counts: [X, rv], rv the value purge returned
\* (0 when purge is not called)
MainPurge(X, do_linger, tnow) ==
    IF X.total_count # X.chash.size /\ X.chash.size - X.total_count > 0
    THEN purge_closed_connections(X, X.chash.size - X.total_count, do_linger, tnow)
    ELSE [X |-> X, cnt |-> 0]

Purge ==
    /\ pc = "rotated"
    /\ LET r == MainPurge(Ctx, linger, now)
       IN  /\ SetCtx(r.X)
           /\ pc' = IF r.cnt # 0 THEN "exit" ELSE "view"
    /\ UNCHANGED <<linger, now, round, nobs, cursor, rounds, keys, resolve,
                   view, saved_policy, list_policy, ret, seen>>

\* ui_update_view: the current view prints its groups and resolves the
\* names of what it prints
View ==
    /\ pc = "view"
    /\ conns' = ui_update_view(Ctx, view, resolve)
    /\ pc' = "clear"
    /\ UNCHANGED <<chash, newq, groups, listen_groups, out_groups, filters, pinfo,
                   common_policy, new_count, total_count, linger, now, round,
                   nobs, cursor, rounds, keys, resolve,
                   view, saved_policy, list_policy, ret, seen>>

\* the flags are cleared and the counts reset
Clear ==
    /\ pc = "clear"
    /\ conns' = ClearRoundFlags(Ctx)
    /\ new_count' = 0
    /\ total_count' = 0
    /\ pc' = "input"
    /\ UNCHANGED <<chash, newq, groups, listen_groups, out_groups, filters, pinfo,
                   common_policy, linger, now, round, nobs, cursor, rounds, keys, resolve,
                   view, saved_policy, list_policy, ret, seen>>

\* ui_input_loop returns to main, which starts the next round
NextRound ==
    /\ round' = round + 1
    /\ pc' = "scout"
    /\ nobs' = 0
    /\ cursor' = 1
    /\ seen' = {}

\* ui_input_loop: a grouping key, or the restore of the saved policy
SwitchGrouping(p) ==
    /\ pc = "input"
    /\ keys > 0
    /\ SetCtx(switch_grouping(Ctx, p, now))
    /\ keys' = keys - 1
    /\ NextRound
    /\ UNCHANGED <<linger, now, rounds, resolve,
                   view, saved_policy, list_policy, ret>>

\* ui_input_loop: key L
ToggleLinger ==
    /\ pc = "input"
    /\ keys > 0
    /\ linger' = ~linger
    /\ keys' = keys - 1
    /\ NextRound
    /\ UNCHANGED <<conns, chash, newq, groups, listen_groups, out_groups, filters, pinfo,
                   common_policy, new_count, total_count, now, rounds, resolve,
                   view, saved_policy, list_policy, ret>>

\* ui_input_loop: getch times out after the update interval, no key pressed
Timeout(d) ==
    /\ pc = "input"
    /\ round < rounds
    /\ now + d <= MaxTime
    /\ now' = now + d
    /\ NextRound
    /\ UNCHANGED <<conns, chash, newq, groups, listen_groups, out_groups, filters, pinfo,
                   common_policy, new_count, total_count, linger, rounds, keys, resolve,
                   view, saved_policy, list_policy, ret>>

Next ==
    \/ \E k \in Keys : \E st \in ObsStates(k) : Insert(k, st)
    \/ Rotate
    \/ Purge
    \/ View
    \/ Clear
    \/ \E p \in GroupingPolicies : SwitchGrouping(p)
    \/ ToggleLinger
    \/ \E d \in Waits : Timeout(d)

Spec == Init /\ [][Next]_vars

\* ------------------------------------------------------------------------
\* The hashtable on its own: a run allocates MaxPool connections, of any
\* tuples (two of them may carry the same key), and calls chash_put,
\* chash_remove, chash_remove_connection and chash_clear in any order.
\* The tracker is not set up: main is not running.
\* ------------------------------------------------------------------------
HashPools ==
    {[id \in 1 .. MaxPool |->
        NewConn(Tuples[f[id]].laddr, Tuples[f[id]].raddr,
                IF Tuples[f[id]].raddr.port = 0 THEN TCP_LISTEN ELSE TCP_ESTABLISHED)] :
     f \in [1 .. MaxPool -> Keys]}

InitHash ==
    /\ conns \in HashPools
    /\ chash = chash_init
    /\ newq = << >>
    /\ groups = << >>
    /\ listen_groups = << >>
    /\ out_groups = << >>
    /\ filters = << >>
    /\ common_policy = DEFAULT_POLICY
    /\ new_count = 0
    /\ total_count = 0
    /\ pinfo = << >>
    /\ linger = FALSE
    /\ now = 0
    /\ pc = "hash"
    /\ round = 0
    /\ nobs = 0
    /\ cursor = 1
    /\ rounds = 0
    /\ keys = 0
    /\ resolve = FALSE
    /\ view = MAIN_VIEW
    /\ saved_policy = 0
    /\ list_policy = FIRST_MATCH
    /\ ret = NoRet
    /\ seen = {}

HashFrame ==
    UNCHANGED <<conns, newq, groups, listen_groups, out_groups, filters, pinfo,
                common_policy, new_count, total_count, linger, now, pc, round,
                nobs, cursor, rounds, keys, resolve,
                view, saved_policy, list_policy, seen>>

HashPut(id) ==
    /\ pc = "hash"
    /\ chash.size < MaxNodes
    /\ chash' = chash_put(chash, conns, id)
    /\ ret' = [call |-> "chash_put", arg |-> id, rv |-> 0]
    /\ HashFrame

HashRemove(k) ==
    /\ pc = "hash"
    /\ LET r == chash_remove(chash, conns, Tuples[k].laddr, Tuples[k].raddr)
       IN  /\ chash' = r.t
           /\ ret' = [call |-> "chash_remove", arg |-> k, rv |-> r.rv]
    /\ HashFrame

HashRemoveConnection(id) ==
    /\ pc = "hash"
    /\ LET r == chash_remove_connection(chash, conns, id)
       IN  /\ chash' = r.t
           /\ ret' = [call |-> "chash_remove_connection", arg |-> id, rv |-> r.rv]
    /\ HashFrame

\* chash_clear returns nothing: arg is the size the table had
HashClear ==
    /\ pc = "hash"
    /\ chash' = chash_clear(chash, conns).t
    /\ ret' = [call |-> "chash_clear", arg |-> chash.size, rv |-> 0]
    /\ HashFrame

NextHash ==
    \/ \E id \in DOMAIN conns : HashPut(id)
    \/ \E k \in Keys : HashRemove(k)
    \/ \E id \in DOMAIN conns : HashRemoveConnection(id)
    \/ HashClear

SpecHash == InitHash /\ [][NextHash]_vars

\* ------------------------------------------------------------------------
\* The connection queue on its own: a run is built with or without
\* ENABLE_ASSERTIONS, calls cqueue_init, whose mem_alloc finds malloc
\* succeeding or failing, and then cqueue_push, cqueue_remove and
\* cqueue_pop in any order on MaxQueue connections.  A connection is on one
\* queue at a time (connection.c:407): one that is on the queue is not
\* pushed again, one that is not on it is not removed.  newq holds the
\* queue with the pointers of the connections, ret what the last call
\* returned, cursor the place the connection removed last had in the queue.
\* ------------------------------------------------------------------------
InitQueue ==
    /\ conns = << >>
    /\ chash = chash_init
    /\ newq = << >>
    /\ groups = << >>
    /\ listen_groups = << >>
    /\ out_groups = << >>
    /\ filters = << >>
    /\ common_policy = DEFAULT_POLICY
    /\ new_count = 0
    /\ total_count = 0
    /\ pinfo = << >>
    /\ linger = FALSE
    /\ now = 0
    /\ pc = "start"
    /\ round = 0
    /\ nobs = 0
    /\ cursor = 0
    /\ rounds = 0
    /\ keys = << >>
    /\ resolve = FALSE
    /\ view = MAIN_VIEW
    /\ saved_policy = 0
    /\ list_policy = FIRST_MATCH
    /\ ret = NoRet
    /\ seen = {}

QueueFrame ==
    UNCHANGED <<conns, chash, groups, listen_groups, out_groups, filters, pinfo,
                common_policy, new_count, total_count, linger, now, round,
                nobs, rounds, keys, resolve,
                view, saved_policy, list_policy, seen>>

\* connection c is on the queue
OnQueue(L, c) ==
    \E i \in 1 .. Len(FollowNext(L, L.head, MaxQueue)) :
        FollowNext(L, L.head, MaxQueue)[i] = c

\* the place of connection c in the queue, counted from the head
QueuePlace(L, c) ==
    CHOOSE i \in 1 .. Len(FollowNext(L, L.head, MaxQueue)) :
        FollowNext(L, L.head, MaxQueue)[i] = c

QueueInit(assertions, ok) ==
    /\ pc = "start"
    /\ LET m == do_mem_alloc(assertions, ok)
       IN  /\ pc' = IF m.aborted THEN "abort" ELSE "queue"
           /\ newq' = IF m.aborted THEN newq ELSE cqueue_init_links
           /\ ret' = [call |-> "cqueue_init",
                      arg |-> [assertions |-> assertions, ok |-> ok],
                      rv |-> IF m.aborted THEN NULL ELSE m.ptr]
    /\ UNCHANGED cursor
    /\ QueueFrame

QueuePush(c) ==
    /\ pc = "queue"
    /\ ~OnQueue(newq, c)
    /\ newq' = cqueue_push_links(newq, c)
    /\ ret' = [call |-> "cqueue_push", arg |-> c, rv |-> newq'.size]
    /\ UNCHANGED <<pc, cursor>>
    /\ QueueFrame

QueueRemove(c) ==
    /\ pc = "queue"
    /\ OnQueue(newq, c)
    /\ newq' = cqueue_remove_links(newq, c)
    /\ ret' = [call |-> "cqueue_remove", arg |-> c, rv |-> newq'.size]
    /\ cursor' = QueuePlace(newq, c)
    /\ UNCHANGED pc
    /\ QueueFrame

QueuePop ==
    /\ pc = "queue"
    /\ newq' = cqueue_pop_links(newq).q
    /\ ret' = [call |-> "cqueue_pop", arg |-> 0, rv |-> cqueue_pop_links(newq).rv]
    /\ UNCHANGED <<pc, cursor>>
    /\ QueueFrame

NextQueue ==
    \/ \E assertions \in BOOLEAN, ok \in BOOLEAN : QueueInit(assertions, ok)
    \/ \E c \in 1 .. MaxQueue : QueuePush(c)
    \/ \E c \in 1 .. MaxQueue : QueueRemove(c)
    \/ QueuePop

SpecQueue == InitQueue /\ [][NextQueue]_vars

\* ------------------------------------------------------------------------
\* The filter chain on its own: a run takes one connection and a chain of
\* either policy, empty or of one filter that has been evaluated for long,
\* adds filters to the chain with filtlist_add, at its head or at its end,
\* and calls filter_match, filtlist_match and filtlist_action_for.  ret
\* holds what the last call returned; filtlist_match returns the place in
\* the chain of the filter, 0 for NULL.  nobs counts the calls.
\* ------------------------------------------------------------------------
ADD_FIRST == 0
ADD_LAST == 1

filtlist_add(list, filt, pol) ==
    IF pol = ADD_FIRST THEN <<filt>> \o list ELSE Append(list, filt)

filtlist_action_for(list, first_match, conn) ==
    LET fi == filtlist_match(list, first_match, conn)
    IN  IF fi # 0 THEN list[fi].action ELSE FILTERACT_NONE

\* the connections the filters are asked about: every tuple in every state
\* a scout reports, with the interface name insert_new_connection gives it,
\* created at second 0 or at second 3
FiltRecords ==
    UNION {{[NewConn(Tuples[k].laddr, Tuples[k].raddr, st) EXCEPT
                !.ifname = ifname_for_addr(Tuples[k].laddr), !.added = t] :
            st \in ObsStates(k), t \in {0, 3}} : k \in Keys}

\* the selector flags of the filters of the runs
FiltPolicies ==
    { 0,
      POLICY_REMOTE,
      POLICY_REMOTE + POLICY_PORT,
      POLICY_REMOTE + POLICY_ADDR,
      POLICY_REMOTE + POLICY_ADDR + POLICY_PORT,
      POLICY_LOCAL + POLICY_PORT,
      POLICY_LOCAL + POLICY_PORT + POLICY_AF,
      POLICY_STATE,
      POLICY_REMOTE + POLICY_PORT + POLICY_STATE,
      POLICY_AF,
      POLICY_IF,
      POLICY_CLOUD + POLICY_REMOTE + POLICY_PORT }

\* the filters of the runs: filter_from_connection at second 1 of the IPv4
\* connection to port 80 (action WARN) and of the IPv6 connection (action
\* IGNORE), the filter by time window and remote port made of the former at
\* second 3, and the filters of --warn-port 80 and --ignore-port 3746
FilterPool ==
    {filter_from_connection(
        [NewConn(Tuples[3].laddr, Tuples[3].raddr, TCP_ESTABLISHED) EXCEPT
            !.ifname = ifname_for_addr(Tuples[3].laddr)],
        pol, FILTERACT_WARN, 1) : pol \in FiltPolicies}
    \cup
    {filter_from_connection(
        [NewConn(Tuples[1].laddr, Tuples[1].raddr, TCP_TIME_WAIT) EXCEPT
            !.ifname = ifname_for_addr(Tuples[1].laddr)],
        pol, FILTERACT_IGNORE, 1) : pol \in FiltPolicies}
    \cup
    {filter_from_connection(
        [NewConn(Tuples[3].laddr, Tuples[3].raddr, TCP_ESTABLISHED) EXCEPT
            !.ifname = ifname_for_addr(Tuples[3].laddr)],
        POLICY_CLOUD + POLICY_REMOTE + POLICY_PORT, FILTERACT_GROUP, 3)}
    \cup
    {parse_port_filter(POLICY_REMOTE + POLICY_PORT, FILTERACT_WARN, 80, NULL),
     parse_port_filter(POLICY_REMOTE + POLICY_PORT, FILTERACT_IGNORE, 3746, NULL)}

\* the filter of --warn-port 80 after 2^32 - 1 evaluations, one of them a
\* match: a chain of a run that has gone on for long starts with it
WornFilter ==
    [parse_port_filter(POLICY_REMOTE + POLICY_PORT, FILTERACT_WARN, 80, NULL) EXCEPT
        !.evals = [hi |-> HALF_MOD - 1, lo |-> HALF_MOD - 1],
        !.matches = [hi |-> 0, lo |-> 1]]

InitFilt ==
    /\ conns \in {[id \in {1} |-> r] : r \in FiltRecords}
    /\ list_policy \in {FIRST_MATCH, LAST_MATCH}
    /\ filters \in {<< >>, <<WornFilter>>}
    /\ chash = chash_init
    /\ newq = << >>
    /\ groups = << >>
    /\ listen_groups = << >>
    /\ out_groups = << >>
    /\ common_policy = DEFAULT_POLICY
    /\ new_count = 0
    /\ total_count = 0
    /\ pinfo = << >>
    /\ linger = FALSE
    /\ now = 0
    /\ pc = "filter"
    /\ round = 0
    /\ nobs = 0
    /\ cursor = 1
    /\ rounds = 0
    /\ keys = 0
    /\ resolve = FALSE
    /\ view = MAIN_VIEW
    /\ saved_policy = 0
    /\ ret = NoRet
    /\ seen = {}

FiltFrame ==
    UNCHANGED <<conns, chash, newq, groups, listen_groups, out_groups, pinfo,
                common_policy, new_count, total_count, linger, now, pc, round,
                cursor, rounds, keys, resolve, view, saved_policy,
                list_policy, seen>>

FiltAdd(f, pol) ==
    /\ pc = "filter"
    /\ Len(filters) < MaxChain
    /\ filters' = filtlist_add(filters, f, pol)
    /\ ret' = NoRet
    /\ UNCHANGED nobs
    /\ FiltFrame

FiltMatchOne(i) ==
    /\ pc = "filter"
    /\ nobs < MaxEvals
    /\ ret' = [call |-> "filter_match", arg |-> i,
               rv |-> filter_match(filters[i], conns[1])]
    /\ filters' = [filters EXCEPT ![i] = FmCounters(@, conns[1])]
    /\ nobs' = nobs + 1
    /\ FiltFrame

FiltMatch ==
    /\ pc = "filter"
    /\ nobs < MaxEvals
    /\ ret' = [call |-> "filtlist_match", arg |-> 0,
               rv |-> filtlist_match(filters, list_policy = FIRST_MATCH, conns[1])]
    /\ filters' = FiltlistCounters(filters, list_policy = FIRST_MATCH, conns[1], 1)
    /\ nobs' = nobs + 1
    /\ FiltFrame

FiltActionFor ==
    /\ pc = "filter"
    /\ nobs < MaxEvals
    /\ ret' = [call |-> "filtlist_action_for", arg |-> 0,
               rv |-> filtlist_action_for(filters, list_policy = FIRST_MATCH, conns[1])]
    /\ filters' = FiltlistCounters(filters, list_policy = FIRST_MATCH, conns[1], 1)
    /\ nobs' = nobs + 1
    /\ FiltFrame

NextFilt ==
    \/ \E f \in FilterPool : \E pol \in {ADD_FIRST, ADD_LAST} : FiltAdd(f, pol)
    \/ \E i \in 1 .. Len(filters) : FiltMatchOne(i)
    \/ FiltMatch
    \/ FiltActionFor

SpecFilt == InitFilt /\ [][NextFilt]_vars

\* ------------------------------------------------------------------------
\* The views: a run of main in which the user presses a view key or a
\* grouping key, or lets the wait time out, after every round.  A round is
\* the body of the loop of main as one step.
\* ------------------------------------------------------------------------
\* the keys pressed
UIKeys == {"E", "M", "H"} \cup GroupingKeys

\* what the scouts report in a round: <<tuple, state>> in reading order
UIObs ==
    { << >>,
      << <<2, TCP_ESTABLISHED>>, <<3, TCP_ESTABLISHED>> >>,
      << <<2, TCP_TIME_WAIT>>, <<3, TCP_ESTABLISHED>> >>,
      << <<1, TCP_ESTABLISHED>>, <<4, TCP_LISTEN>> >> }

\* the scouts: insert_connection for every connection read
RECURSIVE ScoutAll(_, _, _, _)
ScoutAll(X, obs, i, tnow) ==
    IF i > Len(obs) THEN X
    ELSE ScoutAll(insert_connection(X, Tuples[obs[i][1]].laddr, Tuples[obs[i][1]].raddr,
                                    obs[i][2], tnow), obs, i + 1, tnow)

\* ui_update_view, then the flags are cleared and the counts reset
ViewAndClear(X, v, resolving) ==
    [X EXCEPT !.conns = ClearRoundFlags([X EXCEPT !.conns = ui_update_view(X, v, resolving)]),
              !.new_count = 0, !.total_count = 0]

\* main after purge_closed_connections has returned r: it exits when the
\* purge has not found every closed connection
AfterPurge(r, v, resolving) ==
    IF r.cnt # 0 THEN [X |-> r.X, exit |-> TRUE]
    ELSE [X |-> ViewAndClear(r.X, v, resolving), exit |-> FALSE]

\* the body of the loop of main up to ui_input_loop: [X, exit]
MainRound(X, v, obs, do_linger, resolving, tnow) ==
    AfterPurge(MainPurge(rotate_new_queue(ScoutAll(X, obs, 1, tnow), tnow),
                         do_linger, tnow), v, resolving)

InitUI ==
    /\ conns = << >>
    /\ chash = chash_init
    /\ newq = << >>
    /\ groups = << >>
    /\ listen_groups = << >>
    /\ out_groups = << >>
    /\ filters = << >>
    /\ common_policy \in GroupingPolicies
    /\ new_count = 0
    /\ total_count = 0
    /\ pinfo = << >>
    /\ linger = FALSE
    /\ now = 0
    /\ pc = "scout"
    /\ round = 1
    /\ nobs = 0
    /\ cursor = 1
    /\ rounds = MaxUIKeys + 1
    /\ keys = MaxUIKeys
    /\ resolve \in BOOLEAN
    /\ view = MAIN_VIEW
    /\ saved_policy = 0
    /\ list_policy = FIRST_MATCH
    /\ ret = NoRet
    /\ seen = {}

\* one round of main
RoundUI(obs) ==
    /\ pc = "scout"
    /\ round <= rounds
    /\ LET r == MainRound(Ctx, view, obs, linger, resolve, now)
       IN  /\ SetCtx(r.X)
           /\ pc' = IF r.exit THEN "exit" ELSE "input"
    /\ nobs' = Len(obs)
    /\ cursor' = IF obs = << >> THEN cursor ELSE obs[Len(obs)][1]
    /\ seen' = {obs[i][1] : i \in 1 .. Len(obs)}
    /\ UNCHANGED <<linger, now, round, rounds, keys, resolve,
                   view, saved_policy, list_policy, ret>>

\* ui_input_loop: getch returns a key.  ret keeps the call of
\* init_endpoint_view made last and the grouping it was made under.
KeyPress(key) ==
    /\ pc = "input"
    /\ keys > 0
    /\ LET U == ui_input_loop([X |-> Ctx, view |-> view, saved |-> saved_policy], key, now)
       IN  /\ SetCtx(U.X)
           /\ view' = U.view
           /\ saved_policy' = U.saved
    /\ ret' = IF key = "E" /\ view # ENDPOINT_VIEW
              THEN [call |-> "init_endpoint_view", arg |-> common_policy, rv |-> 0]
              ELSE ret
    /\ keys' = keys - 1
    /\ NextRound
    /\ UNCHANGED <<linger, now, rounds, resolve, list_policy>>

NextUI ==
    \/ \E obs \in UIObs : RoundUI(obs)
    \/ \E key \in UIKeys : KeyPress(key)
    \/ \E d \in Waits : Timeout(d)

SpecUI == InitUI /\ [][NextUI]_vars

\* ------------------------------------------------------------------------
\* The listening runs: main with the default grouping and without filters
\* and keys, over a listening socket and two connections to its port that
\* come and go.
\* ------------------------------------------------------------------------
InitListen ==
    /\ conns = << >>
    /\ chash = chash_init
    /\ newq = << >>
    /\ groups = << >>
    /\ listen_groups = << >>
    /\ out_groups = << >>
    /\ filters = << >>
    /\ common_policy = DEFAULT_POLICY
    /\ new_count = 0
    /\ total_count = 0
    /\ pinfo = << >>
    /\ linger \in BOOLEAN
    /\ now = 0
    /\ pc = "scout"
    /\ round = 1
    /\ nobs = 0
    /\ cursor = 1
    /\ rounds = MaxListenRounds
    /\ keys = 0
    /\ resolve = FALSE
    /\ view = MAIN_VIEW
    /\ saved_policy = 0
    /\ list_policy = FIRST_MATCH
    /\ ret = NoRet
    /\ seen = {}

NextListen ==
    \/ \E k \in ListenKeys : \E st \in ObsStates(k) : Insert(k, st)
    \/ Rotate
    \/ Purge
    \/ View
    \/ Clear
    \/ \E d \in Waits : Timeout(d)

SpecListen == InitListen /\ [][NextListen]_vars

\* ------------------------------------------------------------------------
\* The lingering runs: the listening runs with lingering enabled, grouped
\* by remote address or by state, for MaxLingerRounds rounds: long enough
\* for a connection to be missed, seen again and missed again.
\* ------------------------------------------------------------------------
InitLinger ==
    /\ conns = << >>
    /\ chash = chash_init
    /\ newq = << >>
    /\ groups = << >>
    /\ listen_groups = << >>
    /\ out_groups = << >>
    /\ filters = << >>
    /\ common_policy \in {DEFAULT_POLICY, POLICY_STATE}
    /\ new_count = 0
    /\ total_count = 0
    /\ pinfo = << >>
    /\ linger = TRUE
    /\ now = 0
    /\ pc = "scout"
    /\ round = 1
    /\ nobs = 0
    /\ cursor = 1
    /\ rounds = MaxLingerRounds
    /\ keys = 0
    /\ resolve = FALSE
    /\ view = MAIN_VIEW
    /\ saved_policy = 0
    /\ list_policy = FIRST_MATCH
    /\ ret = NoRet
    /\ seen = {}

SpecLinger == InitLinger /\ [][NextListen]_vars

\* ------------------------------------------------------------------------
\* The runs that follow processes: main with --pid 1,2, any filter chain
\* of the runs, lingering on or off, names not resolved, no key pressed.
\* ------------------------------------------------------------------------
\* the context before parse_pids
PidBase(fs) ==
    [conns |-> << >>, chash |-> chash_init, newq |-> << >>,
     groups |-> [g \in {fs[i].group : i \in 1 .. Len(fs)} |-> group_init],
     listen |-> << >>, out |-> << >>, filters |-> fs,
     policy |-> DEFAULT_POLICY, new_count |-> 0, total_count |-> 0,
     pinfo |-> << >>]

InitPid ==
    /\ conns = << >>
    /\ chash = chash_init
    /\ newq = << >>
    /\ filters \in FilterConfigs
    /\ groups = parse_pids(PidBase(filters), FollowedPids, 1).groups
    /\ pinfo = parse_pids(PidBase(filters), FollowedPids, 1).pinfo
    /\ listen_groups = << >>
    /\ out_groups = << >>
    /\ common_policy = DEFAULT_POLICY
    /\ new_count = 0
    /\ total_count = 0
    /\ linger \in BOOLEAN
    /\ now = 0
    /\ pc = "scan"
    /\ round = 1
    /\ nobs = 0
    /\ cursor = 1
    /\ rounds = MaxPidRounds
    /\ keys = 0
    /\ resolve = FALSE
    /\ view = MAIN_VIEW
    /\ saved_policy = 0
    /\ list_policy = FIRST_MATCH
    /\ ret = NoRet
    /\ seen = {}

\* the round starts: scan_inodes over /proc
ScanInodes(proc) ==
    /\ pc = "scan"
    /\ round <= rounds
    /\ pinfo' = scan_inodes(pinfo, proc)
    /\ pc' = "pscout"
    /\ UNCHANGED <<conns, chash, newq, groups, listen_groups, out_groups, filters,
                   common_policy, new_count, total_count, linger, now, round,
                   nobs, cursor, rounds, keys, resolve,
                   view, saved_policy, list_policy, ret, seen>>

\* a scout reports a connection and the inode of its socket
InsertPid(k, st, inode) ==
    /\ pc = "pscout"
    /\ nobs < MaxObs
    /\ k >= cursor
    /\ SetCtx(insert_connection_pid(Ctx, Tuples[k].laddr, Tuples[k].raddr, st, inode, now))
    /\ nobs' = nobs + 1
    /\ cursor' = k
    /\ seen' = seen \cup {k}
    /\ UNCHANGED <<linger, now, pc, round, rounds, keys, resolve,
                   view, saved_policy, list_policy, ret>>

\* the scouts are done: no rotation in follow mode, main purges and then
\* checks the processes.  check_dead_processes reads the next pointer of a
\* pidinfo it has freed: the read gives the pointer the block held, or
\* (wild) anything else, and main is lost.
PurgePid(wild) ==
    /\ pc = "pscout"
    /\ LET r == MainPurgePid(Ctx, linger, now)
       IN  IF r.cnt # 0
           THEN SetCtx(r.X) /\ pc' = "exit"
           ELSE /\ SetCtx(check_dead_processes(r.X).X)
                /\ pc' = IF check_dead_processes(r.X).freed /\ wild THEN "lost"
                         ELSE IF check_dead_processes(r.X).alive = 0 THEN "exit"
                         ELSE "pview"
    /\ UNCHANGED <<linger, now, round, nobs, cursor, rounds, keys, resolve,
                   view, saved_policy, list_policy, ret, seen>>

\* ui_update_view in follow mode
ViewPid ==
    /\ pc = "pview"
    /\ conns' = IF view = MAIN_VIEW THEN do_print_stat_pids(Ctx, resolve)
                ELSE ui_update_view(Ctx, view, resolve)
    /\ pc' = "pclear"
    /\ UNCHANGED <<chash, newq, groups, listen_groups, out_groups, filters, pinfo,
                   common_policy, new_count, total_count, linger, now, round,
                   nobs, cursor, rounds, keys, resolve,
                   view, saved_policy, list_policy, ret, seen>>

\* the flags are cleared and the counts reset
ClearPid ==
    /\ pc = "pclear"
    /\ conns' = ClearRoundFlagsPid(Ctx)
    /\ new_count' = 0
    /\ total_count' = 0
    /\ pc' = "pinput"
    /\ UNCHANGED <<chash, newq, groups, listen_groups, out_groups, filters, pinfo,
                   common_policy, linger, now, round, nobs, cursor, rounds, keys, resolve,
                   view, saved_policy, list_policy, ret, seen>>

\* ui_input_loop: getch times out, the next round starts with the scan
TimeoutPid(d) ==
    /\ pc = "pinput"
    /\ round < rounds
    /\ now + d <= MaxTime
    /\ now' = now + d
    /\ round' = round + 1
    /\ pc' = "scan"
    /\ nobs' = 0
    /\ cursor' = 1
    /\ seen' = {}
    /\ UNCHANGED <<conns, chash, newq, groups, listen_groups, out_groups, filters, pinfo,
                   common_policy, new_count, total_count, linger, rounds, keys, resolve,
                   view, saved_policy, list_policy, ret>>

NextPid ==
    \/ \E proc \in ProcTables : ScanInodes(proc)
    \/ \E k \in PidKeys : \E st \in ObsStates(k) : \E inode \in SocketInodes :
          InsertPid(k, st, inode)
    \/ \E wild \in BOOLEAN : PurgePid(wild)
    \/ ViewPid
    \/ ClearPid
    \/ \E d \in Waits : TimeoutPid(d)

SpecPid == InitPid /\ [][NextPid]_vars

\* ------------------------------------------------------------------------
\* The counting runs: main in either mode, a listening run or a run that
\* follows processes.
\* ------------------------------------------------------------------------
SpecCount == (InitListen \/ InitPid) /\ [][NextListen \/ NextPid]_vars

\* ------------------------------------------------------------------------
\* What the properties below talk about
\* ------------------------------------------------------------------------
Range(seq) == {seq[i] : i \in 1 .. Len(seq)}

ListenIds == Range(listen_groups)

OutIds == Range(out_groups)

FilterGroupIds == Range(FilterGroups(filters)) \ {NULL}

\* the groups the tracker reaches: the two lists and the filters' groups
TrackedGroups == ListenIds \cup OutIds \cup FilterGroupIds

\* the groups id is a member of, counted with multiplicity
Memberships(id) ==
    UNION {{<<g, i>> : i \in {j \in 1 .. Len(groups[g].q) : groups[g].q[j] = id}} :
           g \in TrackedGroups}

\* the listening groups id is the parent of
Parenthoods(id) == {g \in ListenIds : groups[g].parent = id}

\* main is between two rounds: the purge of a round is done, or
\* ui_input_loop has returned (after switch_grouping, when a grouping key
\* was pressed) and no connection of the next round is inserted yet
RoundEnd == pc \in {"view", "clear", "input"} \/ (pc = "scout" /\ nobs = 0)

\* C1: at the end of every round and after every switch_grouping, each
\* record of the table is a member of exactly one group (listening,
\* outbound or a filter's) or the parent of exactly one listening group,
\* and every member and every parent of a group is a record of the table.
C1_EveryRecordInOneGroup ==
    RoundEnd =>
        /\ \A id \in TableIds(chash) :
              /\ id \in DOMAIN conns
              /\ Cardinality(Memberships(id)) + Cardinality(Parenthoods(id)) = 1
        /\ \A g \in TrackedGroups :
              /\ Range(groups[g].q) \subseteq TableIds(chash)
              /\ groups[g].parent # NULL => groups[g].parent \in TableIds(chash)

\* C1 happens: a round has ended with a listening parent, a member of its
\* group and a member of an outbound group in the table
C1_Witness ==
    /\ pc = "input"
    /\ \E g \in ListenIds : groups[g].parent # NULL /\ Len(groups[g].q) > 0
    /\ \E g \in OutIds : Len(groups[g].q) > 0

\* every place id is linked: <<0, i>> is position i of the pending queue,
\* <<g, i>> position i of the queue of group g
Links(id) ==
    {<<0, i>> : i \in {j \in 1 .. Len(newq) : newq[j] = id}}
    \cup UNION {{<<g, i>> : i \in {j \in 1 .. Len(groups[g].q) : groups[g].q[j] = id}} :
                g \in DOMAIN groups}

OutPolicyCurrent ==
    \A g \in OutIds : groups[g].has_filter /\ groups[g].filter.policy = common_policy

\* The statement of C3 as the specification words it: at the end of every
\* round and after every switch_grouping every outbound group's filter has
\* the current policy and every member satisfies the filter of its group.
C3_AsStated ==
    RoundEnd =>
        /\ OutPolicyCurrent
        /\ \A g \in OutIds : \A id \in Range(groups[g].q) :
              filter_match(groups[g].filter, conns[id]) = 1

\* C3, amended: at the end of every round and after every switch_grouping
\* every outbound group's filter has the current policy, and every member
\* satisfies the filter of its group, except that under a by-state policy a
\* lingering member (state DEAD) stays in the group of the state it was
\* last observed in.
C3_HomogeneousButLingering ==
    RoundEnd =>
        /\ OutPolicyCurrent
        /\ \A g \in OutIds : \A id \in Range(groups[g].q) :
              \/ filter_match(groups[g].filter, conns[id]) = 1
              \/ /\ HasBit(groups[g].filter.policy, POLICY_STATE)
                 /\ conns[id].state = TCP_DEAD

\* C3 happens: a round ends with a lingering member in a by-state group
\* keyed by another state, next to a live member that matches its group
C3_Witness ==
    /\ pc = "input"
    /\ common_policy = POLICY_STATE
    /\ \E g \in OutIds : \E id \in Range(groups[g].q) :
          conns[id].state = TCP_DEAD /\ groups[g].filter.state # TCP_DEAD
    /\ \E g \in OutIds : \E id \in Range(groups[g].q) :
          conns[id].state # TCP_DEAD /\ filter_match(groups[g].filter, conns[id]) = 1

\* the nodes of the table that point to connection a: <<b, i>> is node i
\* of the chain of bucket b
NodesOf(t, a) ==
    UNION {{<<b, i>> : i \in {j \in 1 .. Len(t.buckets[b]) : t.buckets[b][j] = a}} :
           b \in DOMAIN t.buckets}

\* two connections have the same key: family, local and remote endpoint
SameKey(c1, c2) ==
    /\ c1.family = c2.family
    /\ c1.laddr = c2.laddr
    /\ c1.raddr = c2.raddr

\* C4: the table never holds two records with the same (family, local
\* address, local port, remote address, remote port), whatever the scouts
\* report and in whatever round; and no record is linked into it twice.
C4_UniqueKeys ==
    LET ids == TableIds(chash)
    IN  /\ ids \subseteq DOMAIN conns
        /\ \A a \in ids : \A b \in ids : SameKey(conns[a], conns[b]) => a = b
        /\ \A a \in ids : Cardinality(NodesOf(chash, a)) = 1

\* C4 happens: in a later round one tuple was reported twice, with two
\* states, and the table holds one record for it next to another record
C4_Witness ==
    /\ round > 1
    /\ pc = "scout"
    /\ nobs = 2
    /\ total_count = 1
    /\ chash.size = 2
    /\ \E id \in TableIds(chash) :
          /\ HasBit(conns[id].flags, METADATA_STATE_CHANGED)
          /\ HasBit(conns[id].flags, METADATA_UPDATED)

\* the table holds at most one record per key, each linked once
UniqueTable(t) ==
    \A a \in TableIds(t) :
        /\ Cardinality(NodesOf(t, a)) = 1
        /\ \A b \in TableIds(t) : SameKey(conns[a], conns[b]) => a = b

\* C5: for a table with at most one record per key: after chash_put of a
\* record keyed t, chash_get(t) returns that record; a put or a remove of
\* another key, in the same bucket or not, leaves what chash_get(t)
\* returns; after chash_remove(t), chash_get(t) returns NULL.
C5_PutGetRemove ==
    [][UniqueTable(chash) =>
        /\ \A id \in DOMAIN conns :
              chash' = chash_put(chash, conns, id) =>
                 /\ chash_get(chash', conns, conns[id].laddr, conns[id].raddr) = id
                 /\ \A k \in Keys :
                       ~SameKey(NewConn(Tuples[k].laddr, Tuples[k].raddr, 0), conns[id])
                       => chash_get(chash', conns, Tuples[k].laddr, Tuples[k].raddr)
                          = chash_get(chash, conns, Tuples[k].laddr, Tuples[k].raddr)
        /\ \A r \in Keys :
              chash' = chash_remove(chash, conns, Tuples[r].laddr, Tuples[r].raddr).t =>
                 /\ chash_get(chash', conns, Tuples[r].laddr, Tuples[r].raddr) = NULL
                 /\ \A k \in Keys \ {r} :
                       chash_get(chash', conns, Tuples[k].laddr, Tuples[k].raddr)
                       = chash_get(chash, conns, Tuples[k].laddr, Tuples[k].raddr)
    ]_vars

\* C5 happens: after puts and a remove, one bucket chains an IPv6 and an
\* IPv4 record of different keys, and chash_get finds each of them
C5_Witness ==
    /\ pc = "hash"
    /\ UniqueTable(chash)
    /\ \E b \in DOMAIN chash.buckets :
          /\ Len(chash.buckets[b]) = 2
          /\ conns[chash.buckets[b][1]].family # conns[chash.buckets[b][2]].family
          /\ \A i \in 1 .. 2 :
                chash_get(chash, conns, conns[chash.buckets[b][i]].laddr,
                          conns[chash.buckets[b][i]].raddr) = chash.buckets[b][i]

\* C6: after any sequence of chash_put, chash_remove,
\* chash_remove_connection and chash_clear, absent keys and both families
\* included, the size field is the number of nodes reachable over the
\* bucket chains; each chash_put adds one node, so N puts into an empty
\* table give size N.
C6_SizeIsNodeCount ==
    /\ [](chash.size = CountNodes(chash, 0))
    /\ [][\A id \in DOMAIN conns :
             chash' = chash_put(chash, conns, id) =>
                /\ chash'.size = chash.size + 1
                /\ CountNodes(chash', 0) = CountNodes(chash, 0) + 1]_vars

\* C6 happens: the table holds three nodes, of records of both families,
\* two of them under one key
C6_Witness ==
    /\ pc = "hash"
    /\ chash.size = 3
    /\ \E a \in TableIds(chash) : conns[a].family = AF_INET6
    /\ \E a \in TableIds(chash) : conns[a].family = AF_INET
    /\ \E a \in TableIds(chash) : \E b \in TableIds(chash) :
          a # b /\ SameKey(conns[a], conns[b])

\* the members of the outbound groups
OutMembers == UNION {Range(groups[g].q) : g \in OutIds}

\* C7: after switch_grouping(p) with p not the current policy, the policy
\* is p, the pending queue is empty, every group of the outbound list has a
\* filter of policy p and at least one member, and every record that was a
\* member of an outbound group is a member of exactly one group.
C7_SwitchGrouping ==
    [][\A p \in GroupingPolicies :
          (SwitchGrouping(p) /\ p # common_policy) =>
             /\ common_policy' = p
             /\ newq' = << >>
             /\ \A g \in OutIds' :
                   /\ groups'[g].has_filter
                   /\ groups'[g].filter.policy = p
                   /\ Len(groups'[g].q) >= 1
             /\ \A id \in OutMembers :
                   /\ id \in DOMAIN conns'
                   /\ Cardinality(Memberships(id)') = 1
                   /\ conns'[id].group \in TrackedGroups'
    ]_vars

\* C7 happens: switch_grouping to the by-state policy has run on a table
\* with a lingering member and a live one: the outbound list holds a group
\* keyed by the DEAD state, which no round makes, next to another group
C7_Witness ==
    /\ pc = "scout"
    /\ nobs = 0
    /\ common_policy = POLICY_STATE
    /\ Len(out_groups) >= 2
    /\ \E g \in OutIds : groups[g].filter.state = TCP_DEAD /\ Len(groups[g].q) >= 1

\* a listening group exists for the local port and the family of conn: its
\* parent was observed in LISTEN state on them (the filter of the group
\* keeps them when the parent is gone)
ListeningOn(conn) ==
    \E g \in ListenIds :
        IF groups[g].parent # NULL
        THEN /\ conns[groups[g].parent].state = TCP_LISTEN
             /\ conns[groups[g].parent].laddr.port = conn.laddr.port
             /\ conns[groups[g].parent].family = conn.family
        ELSE /\ groups[g].filter.laddr.port = conn.laddr.port
             /\ groups[g].filter.af = conn.family

\* C8: when a listening group exists for local port P and family F, every
\* pending record with local port P and family F that rotate_new_queue
\* processes (at the end of the scouting, or for switch_grouping, which
\* makes every outbound member pending) is added to a listening group and
\* tagged INBOUND, and is in no outbound group, whatever the outbound
\* groups and the grouping policy are.
C8_ListeningFirst ==
    [][\A id \in DOMAIN conns :
          /\ ListeningOn(conns[id])
          /\ \/ id \in Range(newq) /\ Rotate
             \/ id \in OutMembers
                  /\ \E p \in GroupingPolicies : p # common_policy /\ SwitchGrouping(p)
          => /\ conns'[id].group \in ListenIds'
             /\ id \in Range(groups'[conns'[id].group].q)
             /\ conns'[id].dir = DIR_INBOUND
             /\ id \notin OutMembers'
    ]_vars

\* C8 happens: rotate_new_queue has put a new record into a listening group
\* while an outbound group of its remote address was there to take it
C8_Witness ==
    /\ pc = "rotated"
    /\ \E id \in DOMAIN conns :
          /\ HasBit(conns[id].flags, METADATA_NEW)
          /\ conns[id].dir = DIR_INBOUND
          /\ conns[id].group \in ListenIds
          /\ \E g \in OutIds :
                /\ HasBit(groups[g].filter.policy, POLICY_ADDR)
                /\ ~HasBit(groups[g].filter.policy, POLICY_PORT)
                /\ ~HasBit(groups[g].filter.policy, POLICY_CLOUD)
                /\ groups[g].filter.raddr.addr = conns[id].raddr.addr

\* id is a group member the scouts did not report in the round that ends
Missed(id) == conns[id].group # NULL /\ ~metadata_is_touched(conns[id].flags)

\* id is still in the table and in its group, in state DEAD
LingersOn(id) ==
    /\ id \in DOMAIN conns'
    /\ id \in TableIds(chash')
    /\ conns'[id].state = TCP_DEAD
    /\ conns'[id].group = conns[id].group
    /\ id \in Range(groups'[conns[id].group].q)

\* id is neither in the table nor in a group
Gone(id) ==
    /\ id \notin DOMAIN conns'
    /\ id \notin TableIds(chash')
    /\ \A g \in DOMAIN groups' : id \notin Range(groups'[g].q)

\* The statement of C9 as the specification words it: a member the round
\* has missed is gone after the purge when lingering is disabled; with
\* lingering enabled the purge that first misses it keeps it, in state
\* DEAD, with a deadline LINGER_MAX_TIME seconds later, a later purge keeps
\* it before the deadline and drops it once the deadline is reached.
C9_AsStated ==
    [][\A id \in DOMAIN conns :
          (pc = "rotated" /\ Missed(id)) =>
             IF ~linger THEN Gone(id)
             ELSE IF conns[id].state # TCP_DEAD
             THEN LingersOn(id) /\ conns'[id].linger_secs = now + LINGER_MAX_TIME
             ELSE IF now >= conns[id].linger_secs THEN Gone(id)
             ELSE LingersOn(id) /\ conns'[id].linger_secs = conns[id].linger_secs
    ]_vars

\* C9, amended: as above, but a purge that runs exactly LINGER_MAX_TIME
\* seconds after the purge that first missed the member still keeps it: the
\* member is dropped by the first purge that runs later than the deadline.
C9_LingerThenDrop ==
    [][\A id \in DOMAIN conns :
          (pc = "rotated" /\ Missed(id)) =>
             IF ~linger THEN Gone(id)
             ELSE IF conns[id].state # TCP_DEAD
             THEN LingersOn(id) /\ conns'[id].linger_secs = now + LINGER_MAX_TIME
             ELSE IF now > conns[id].linger_secs THEN Gone(id)
             ELSE LingersOn(id) /\ conns'[id].linger_secs = conns[id].linger_secs
    ]_vars

\* C9 happens: a purge has run exactly at the deadline of a lingering
\* member and has kept it
C9_Witness ==
    /\ pc = "view"
    /\ linger
    /\ \E id \in DOMAIN conns :
          /\ conns[id].group # NULL
          /\ conns[id].state = TCP_DEAD
          /\ conns[id].linger_secs = now
          /\ id \in TableIds(chash)

\* C10: after the flag clearing that closes a round every tracked record,
\* listening parents included, has none of NEW, STATE_CHANGED and UPDATED
\* set and so does not count as touched; RESOLVED and every other bit at
\* or above 0x10 is as it was; clearing a second time changes nothing.
C10_RoundFlagsCleared ==
    [][pc = "clear" =>
          /\ DOMAIN conns' = DOMAIN conns
          /\ \A id \in DOMAIN conns :
                /\ ~HasBit(conns'[id].flags, METADATA_NEW)
                /\ ~HasBit(conns'[id].flags, METADATA_STATE_CHANGED)
                /\ ~HasBit(conns'[id].flags, METADATA_UPDATED)
                /\ ~metadata_is_touched(conns'[id].flags)
                /\ conns'[id].flags \div METADATA_RESOLVED
                      = conns[id].flags \div METADATA_RESOLVED
          /\ ClearRoundFlags(Ctx)' = conns'
    ]_vars

\* C10 happens: the flags of a later round are cleared in which a listening
\* parent and a member were reported and the member is resolved: RESOLVED
\* is all that is left of its flags
C10_Witness ==
    /\ pc = "input"
    /\ round > 1
    /\ \E g \in ListenIds :
          /\ groups[g].parent # NULL
          /\ conns[groups[g].parent].flags = 0
    /\ \E id \in DOMAIN conns :
          /\ conns[id].group # NULL
          /\ conns[id].state = TCP_TIME_WAIT
          /\ conns[id].flags = METADATA_RESOLVED

\* the places of the chain whose filter matches the connection
Matching(list, conn) == {i \in 1 .. Len(list) : filter_match(list[i], conn) # 0}

\* the filter matches every connection a scout can report
MatchesAll(f) == \A r \in FiltRecords : filter_match(f, r) # 0

\* the filter of --warn-port 80: remote port 80, action WARN
Port80Warn == parse_port_filter(POLICY_REMOTE + POLICY_PORT, FILTERACT_WARN, 80, NULL)

\* a filter with its counters as filter_init leaves them
Uncounted(f) ==
    [f EXCEPT !.evals = [hi |-> 0, lo |-> 0], !.matches = [hi |-> 0, lo |-> 0]]

\* C11: for the chain [F1: remote port 80 with action WARN, F2: a filter
\* that matches every record, with action IGNORE] and a record whose remote
\* port is 80, filtlist_action_for returns WARN under FIRST_MATCH and
\* IGNORE under LAST_MATCH.
C11_FirstWarnLastIgnore ==
    ( /\ ret.call = "filtlist_action_for"
      /\ Len(filters) = 2
      /\ Uncounted(filters[1]) = Port80Warn
      /\ filters[2].action = FILTERACT_IGNORE
      /\ MatchesAll(filters[2])
      /\ conns[1].raddr.port = 80 )
    => ret.rv = IF list_policy = FIRST_MATCH THEN FILTERACT_WARN ELSE FILTERACT_IGNORE

\* C11 happens: filtlist_action_for has returned IGNORE for the chain under
\* LAST_MATCH and a record to port 80
C11_Witness ==
    /\ ret.call = "filtlist_action_for"
    /\ ret.rv = FILTERACT_IGNORE
    /\ list_policy = LAST_MATCH
    /\ Len(filters) = 2
    /\ Uncounted(filters[1]) = Port80Warn
    /\ filters[2].action = FILTERACT_IGNORE
    /\ MatchesAll(filters[2])
    /\ conns[1].raddr.port = 80

\* C12: filtlist_match returns the earliest matching filter of the chain
\* under FIRST_MATCH and the latest under LAST_MATCH, NULL when no filter
\* matches; filtlist_action_for returns the action of that filter, NONE
\* when there is none.
C12_FirstOrLastMatch ==
    LET M == Matching(filters, conns[1])
        want == IF M = {} THEN 0
                ELSE IF list_policy = FIRST_MATCH
                THEN CHOOSE i \in M : \A j \in M : i <= j
                ELSE CHOOSE i \in M : \A j \in M : i >= j
    IN  /\ ret.call = "filtlist_match" => ret.rv = want
        /\ ret.call = "filtlist_action_for" =>
              ret.rv = IF want = 0 THEN FILTERACT_NONE ELSE filters[want].action

\* C12 happens: filtlist_match has returned the second of two matching
\* filters of different actions under LAST_MATCH
C12_Witness ==
    /\ ret.call = "filtlist_match"
    /\ ret.rv = 2
    /\ list_policy = LAST_MATCH
    /\ Matching(filters, conns[1]) = {1, 2}
    /\ filters[1].action # filters[2].action

\* every selector category present in the policy of f holds for r: the
\* local and the remote end as ADDR and PORT select, the state, the address
\* family of both ends, the interface name (a missing name on either side
\* holds) and the time window of a cloud
CategoriesHold(f, r) ==
    /\ HasBit(f.policy, POLICY_LOCAL) => match_saddr(f.laddr, r.laddr, f.policy) = 1
    /\ HasBit(f.policy, POLICY_REMOTE) => match_saddr(f.raddr, r.raddr, f.policy) = 1
    /\ HasBit(f.policy, POLICY_STATE) => f.state = r.state
    /\ HasBit(f.policy, POLICY_AF) => (r.laddr.family = f.af /\ r.raddr.family = f.af)
    /\ HasBit(f.policy, POLICY_IF) =>
          (r.ifname = NoName \/ f.ifname = NoName \/ r.ifname = f.ifname)
    /\ HasBit(f.policy, POLICY_CLOUD) => r.added - f.cloud_stamp < CLOUD_TIME_LIMIT

\* C13, as the specification words it: filter_match(f, r) is true exactly
\* when every selector category present in the policy of f holds for r; so
\* a filter of no category matches every record, and a filter of STATE and
\* other categories matches only records in the state of the filter.
C13_AsStated ==
    ret.call = "filter_match" =>
        ((ret.rv # 0) <=> CategoriesHold(filters[ret.arg], conns[1]))

\* C18: a filter of policy REMOTE|PORT whose remote selector was built
\* with family AF_INET matches a record exactly when the remote port of the
\* record is the port of the filter, for IPv4 and for IPv6 records.
C18_PortFilterBothFamilies ==
    ( /\ ret.call = "filter_match"
      /\ filters[ret.arg].policy = POLICY_REMOTE + POLICY_PORT
      /\ filters[ret.arg].raddr.family = AF_INET )
    => ((ret.rv # 0) <=> conns[1].raddr.port = filters[ret.arg].raddr.port)

\* C18 happens: the filter of --ignore-port 3746, built with AF_INET, has
\* matched an IPv6 record
C18_Witness ==
    /\ ret.call = "filter_match"
    /\ ret.rv # 0
    /\ Uncounted(filters[ret.arg]) =
          parse_port_filter(POLICY_REMOTE + POLICY_PORT, FILTERACT_IGNORE, 3746, NULL)
    /\ conns[1].family = AF_INET6

\* no node of the table holds a record with the key of tuple k
KeyAbsent(t, k) ==
    \A id \in TableIds(t) :
        ~SameKey(conns[id], NewConn(Tuples[k].laddr, Tuples[k].raddr, 0))

\* C14: chash_remove of a key that is not in the table, its bucket empty or
\* holding only other keys, returns NULL and leaves the size and the
\* content and the order of every bucket as they were.
C14_RemoveAbsentKey ==
    [][\A k \in Keys :
          (HashRemove(k) /\ KeyAbsent(chash, k)) =>
             /\ ret'.rv = NULL
             /\ chash'.size = chash.size
             /\ chash'.buckets = chash.buckets
    ]_vars

\* C14 happens: chash_remove has returned NULL for a key whose bucket holds
\* two records of other keys
C14_Witness ==
    /\ pc = "hash"
    /\ ret.call = "chash_remove"
    /\ ret.rv = NULL
    /\ KeyAbsent(chash, ret.arg)
    /\ Len(Chain(chash, resolve_bucket_sa(Tuples[ret.arg].laddr,
                                          Tuples[ret.arg].raddr))) = 2

\* C16: chash_clear terminates for every table with at most one record per
\* key; afterwards the size is 0, every bucket is empty and chash_get
\* returns NULL for every key, and every record, in the table before or
\* not, exists as it was, with its group back-reference and its queue
\* links.
C16_ClearDetachesAll ==
    [][(HashClear /\ UniqueTable(chash)) =>
          /\ chash_clear(chash, conns).done
          /\ chash'.size = 0
          /\ \A b \in 0 .. (CONNECTION_HASHTABLE_SIZE - 1) : Chain(chash', b) = << >>
          /\ \A k \in Keys :
                chash_get(chash', conns', Tuples[k].laddr, Tuples[k].raddr) = NULL
          /\ conns' = conns
          /\ groups' = groups
          /\ newq' = newq
    ]_vars

\* C16 happens: chash_clear has emptied a table that held records of both
\* families in two buckets
C16_Witness ==
    /\ pc = "hash"
    /\ ret.call = "chash_clear"
    /\ ret.arg = 3
    /\ chash.size = 0
    /\ DOMAIN conns = 1 .. MaxPool
    /\ \E a \in DOMAIN conns : conns[a].family = AF_INET6
    /\ \E a \in DOMAIN conns : resolve_bucket(conns[a]) # resolve_bucket(conns[1])

\* C15: an insert_connection for a tuple reported earlier in the same round
\* creates no record and leaves the size of the table and total_count as
\* they were; so during and at the end of the ingestion total_count is the
\* number of distinct tuples reported in the round.
C15_DoubleEntryCountedOnce ==
    /\ [](pc \in {"scout", "rotated"} => total_count = Cardinality(seen))
    /\ [][\A k \in Keys : \A st \in ObsStates(k) :
             (Insert(k, st) /\ k \in seen) =>
                /\ DOMAIN conns' = DOMAIN conns
                /\ chash'.size = chash.size
                /\ total_count' = total_count]_vars

\* C15 happens: the ingestion of a later round has ended in which one tuple
\* was reported twice, with two states, and another tuple is tracked
C15_Witness ==
    /\ pc = "rotated"
    /\ round > 1
    /\ nobs = 2
    /\ Cardinality(seen) = 1
    /\ total_count = 1
    /\ chash.size = 2
    /\ \E id \in TableIds(chash) : HasBit(conns[id].flags, METADATA_STATE_CHANGED)

\* the record of the table with the key of tuple k, NULL when there is none
Tracked(k) == chash_get(chash, conns, Tuples[k].laddr, Tuples[k].raddr)

\* the group of record id classifies by state
InStateGroup(id) ==
    /\ conns[id].group # NULL
    /\ groups[conns[id].group].has_filter
    /\ HasBit(groups[conns[id].group].filter.policy, POLICY_STATE)

\* C19: when insert_connection observes a tracked record in a state other
\* than the stored one, the stored state becomes the observed one and
\* STATE_CHANGED is set; if the filter of its group has STATE in its
\* policy, the record leaves the group for the pending queue, and after the
\* rotate of the round it is a member of a group whose filter accepts its
\* new state; otherwise its group and all memberships are as before.
C19_StateChangeRequeues ==
    /\ [][\A k \in Keys : \A st \in ObsStates(k) :
             (Insert(k, st) /\ Tracked(k) # NULL /\ conns[Tracked(k)].state # st) =>
                LET id == Tracked(k)
                IN  /\ conns'[id].state = st
                    /\ HasBit(conns'[id].flags, METADATA_STATE_CHANGED)
                    /\ IF InStateGroup(id)
                       THEN /\ id \notin Range(groups'[conns[id].group].q)
                            /\ conns'[id].group = NULL
                            /\ id \in Range(newq')
                            /\ Cardinality(Links(id)') = 1
                       ELSE /\ conns'[id].group = conns[id].group
                            /\ groups' = groups
                            /\ newq' = newq]_vars
    /\ [][Rotate =>
             \A id \in Range(newq) :
                HasBit(conns[id].flags, METADATA_STATE_CHANGED) =>
                   /\ conns'[id].group \in TrackedGroups'
                   /\ id \in Range(groups'[conns'[id].group].q)
                   /\ conns'[id].state = conns[id].state
                   /\ filter_match(groups'[conns'[id].group].filter, conns'[id]) = 1]_vars

\* C19 happens: the rotate of a later round has put a record whose state
\* changed into the by-state group of its new state, another group of the
\* outbound list being keyed by its old state
C19_Witness ==
    /\ pc = "rotated"
    /\ round > 1
    /\ common_policy = POLICY_STATE
    /\ \E id \in DOMAIN conns :
          /\ HasBit(conns[id].flags, METADATA_STATE_CHANGED)
          /\ ~HasBit(conns[id].flags, METADATA_NEW)
          /\ conns[id].group \in OutIds
          /\ groups[conns[id].group].filter.state = conns[id].state
          /\ \E g \in OutIds : groups[g].filter.state # conns[id].state

C17_EndpointViewRestoresPolicy ==
    /\ [](view = ENDPOINT_VIEW => common_policy = POLICY_REMOTE + POLICY_ADDR)
    /\ [][\A key \in GroupingKeys :
             (KeyPress(key) /\ view = ENDPOINT_VIEW) =>
                /\ view' = ENDPOINT_VIEW
                /\ common_policy' = common_policy
                /\ groups' = groups
                /\ out_groups' = out_groups]_vars
    /\ [][(view = ENDPOINT_VIEW /\ view' # ENDPOINT_VIEW) =>
             /\ view' \in {MAIN_VIEW, HELP_VIEW}
             /\ ret.call = "init_endpoint_view"
             /\ common_policy' = ret.arg]_vars

\* C17 happens: the endpoint view was entered from a by-state grouping and
\* has been left for the main view, after the last key of the run, with the
\* by-state grouping back and two groups made by it
C17_Witness ==
    /\ ret.call = "init_endpoint_view"
    /\ ret.arg = POLICY_STATE
    /\ view = MAIN_VIEW
    /\ keys = 0
    /\ common_policy = POLICY_STATE
    /\ Len(out_groups) = 2

\* the listening groups whose parent is tracked
ParentedListenIds == {g \in ListenIds : groups[g].parent # NULL}

\* The statement of C21 as the specification words it: the filter of a
\* listening group matches a record only if the local address, the local
\* port and the family of the record equal those of the parent of the group.
C21_AsStated ==
    \A g \in ParentedListenIds : \A r \in FiltRecords :
        filter_match(groups[g].filter, r) # 0 =>
            /\ r.laddr.addr = conns[groups[g].parent].laddr.addr
            /\ r.laddr.port = conns[groups[g].parent].laddr.port
            /\ r.family = conns[groups[g].parent].family

\* C21, amended: the filter of a listening group matches a record exactly
\* when the local port and the family of the record equal those of the
\* parent of the group; the local address is not compared, so a record of
\* that port and family with another local address is matched.
C21_ListenFilterPortAndFamily ==
    \A g \in ParentedListenIds : \A r \in FiltRecords :
        filter_match(groups[g].filter, r) # 0 <=>
            /\ r.laddr.port = conns[groups[g].parent].laddr.port
            /\ r.family = conns[groups[g].parent].family
            /\ r.raddr.family = conns[groups[g].parent].family

\* C21 happens: a listening group holds a member whose local port and
\* family are those of the parent and whose local address is another one
C21_Witness ==
    \E g \in ParentedListenIds : \E i \in 1 .. Len(groups[g].q) :
        /\ conns[groups[g].q[i]].laddr.port = conns[groups[g].parent].laddr.port
        /\ conns[groups[g].q[i]].family = conns[groups[g].parent].family
        /\ conns[groups[g].q[i]].laddr.addr # conns[groups[g].parent].laddr.addr

\* the records rotate_new_queue is to place in a step: the pending queue
\* when main rotates, the members of the outbound groups when
\* switch_grouping has drained them into the queue
C22_Pending ==
    IF Rotate THEN Range(newq) ELSE Range(newq) \cup OutMembers

\* C22: rotate_new_queue returns for every pending queue and every state of
\* the listening and the outbound list (a pass pops one record and pushes
\* none), and when it has returned, at the end of the scouting or in
\* switch_grouping, the pending queue is empty and every record that was
\* pending is a member of exactly one group, a group of the listening or the
\* outbound list.
C22_RotateEmptiesQueue ==
    [][(Rotate \/ \E p \in GroupingPolicies : p # common_policy /\ SwitchGrouping(p)) =>
          /\ newq' = << >>
          /\ \A id \in C22_Pending :
                /\ Cardinality(Memberships(id)') = 1
                /\ conns'[id].group \in (ListenIds \cup OutIds)'
                /\ id \in Range(groups'[conns'[id].group].q)
                /\ Cardinality(Links(id)') = 1]_vars

\* C22 happens: a rotate has placed two pending records, one into a
\* listening group that was there and one into an outbound group
C22_Witness ==
    /\ pc = "rotated"
    /\ newq = << >>
    /\ \E a, b \in DOMAIN conns :
          /\ HasBit(conns[a].flags, METADATA_NEW)
          /\ HasBit(conns[b].flags, METADATA_NEW)
          /\ conns[a].group \in ListenIds
          /\ conns[b].group \in OutIds

\* the members of the groups of the listening list
ListenMembers == UNION {Range(groups[g].q) : g \in ListenIds}

\* C23: in non-follow mode, after any rounds and switch_grouping calls (and
\* in every state between), every member of a group of the listening list
\* has direction INBOUND and every member of a group of the outbound list
\* has direction OUTBOUND.
C23_DirectionByList ==
    /\ \A id \in ListenMembers : conns[id].dir = DIR_INBOUND
    /\ \A id \in OutMembers : conns[id].dir = DIR_OUTBOUND

\* C23 happens: after a switch_grouping in a later round a listening group
\* and an outbound group have a member each
C23_Witness ==
    /\ round > 1
    /\ keys = 0
    /\ pc = "scout"
    /\ nobs = 0
    /\ ListenMembers # {}
    /\ OutMembers # {}

\* main is about to call purge_closed_connections
PurgeCalled == Purge /\ chash.size - total_count > 0

\* C25: in non-follow mode, whenever main calls purge_closed_connections
\* with closed_cnt = table size - total_count > 0 the call returns 0, and
\* main never takes the exit of a non-zero return, with lingering toggled
\* and switch_grouping called between the rounds.
C25_PurgeFindsAll ==
    /\ [](pc # "exit")
    /\ [][PurgeCalled =>
             /\ purge_closed_connections(Ctx, chash.size - total_count, linger, now).cnt = 0
             /\ pc' = "view"]_vars

\* C25 happens: purge has been called in a later round after a key was
\* pressed, has left a record lingering and has returned 0
C25_Witness ==
    /\ pc = "view"
    /\ round > 1
    /\ keys = 0
    /\ chash.size - total_count > 0
    /\ \E id \in TableIds(chash) : conns[id].state = TCP_DEAD

\* a group without a member and without a parent
EmptyGroup(g) == Len(groups[g].q) = 0 /\ groups[g].parent = NULL

\* The statement of C26 as the specification words it: when
\* purge_closed_connections has returned, no group without members and
\* without a parent is in the outbound or the listening list.
C26_AsStated ==
    [][PurgeCalled => \A g \in (ListenIds \cup OutIds)' : ~EmptyGroup(g)']_vars

\* the groups of the two lists
ListedGroups == ListenIds \cup OutIds

\* the records a group holds or has as its parent
Holds(g) == Range(groups[g].q) \cup (IF groups[g].parent # NULL THEN {groups[g].parent} ELSE {})

\* C27: purge removes a group from its list only when the group has no
\* member and no parent left: a group one of whose records (member or
\* parent) stays in the table is kept with its filter, be it a listening
\* group with a tracked parent and no member or one without parent that has
\* members; and a rotate adds a pending record to the first listening group
\* whose filter matches it, whether that group has a parent or members.
C27_OnlyEmptyGroupsRemoved ==
    /\ [][PurgeCalled =>
             \A g \in ListedGroups :
                /\ g \notin ListedGroups' => Holds(g) \cap TableIds(chash') = {}
                /\ g \in ListedGroups' =>
                      /\ groups'[g].filter = groups[g].filter
                      /\ Holds(g)' = Holds(g) \cap TableIds(chash')
                      /\ (g \in ListenIds <=> g \in ListenIds')]_vars
    /\ [][Rotate =>
             \A id \in Range(newq) : \A i \in 1 .. Len(listen_groups) :
                (/\ filter_match(groups[listen_groups[i]].filter, conns[id]) = 1
                 /\ \A j \in 1 .. (i - 1) :
                       filter_match(groups[listen_groups[j]].filter, conns[id]) = 0)
                => /\ conns'[id].group = listen_groups[i]
                   /\ id \in Range(groups'[listen_groups[i]].q)]_vars

\* C27 happens: a listening group whose parent was purged in an earlier
\* round, kept for its member, has been given a new member by rotate
C27_Witness ==
    /\ pc = "rotated"
    /\ \E g \in ListenIds :
          /\ groups[g].parent = NULL
          /\ \E a, b \in Range(groups[g].q) :
                /\ HasBit(conns[a].flags, METADATA_NEW)
                /\ ~HasBit(conns[b].flags, METADATA_NEW)

\* the listening groups whose parent was not observed in this round
UnseenParents ==
    {g \in ParentedListenIds : ~metadata_is_touched(conns[groups[g].parent].flags)}

\* The statement of C28 as the specification words it: with lingering
\* enabled, purge sets a listening parent that was not observed in the round
\* to DEAD, stamps its linger deadline and keeps it in the table and as the
\* parent of its group.
C28_AsStated ==
    [][(PurgeCalled /\ linger) =>
          \A g \in UnseenParents :
             /\ groups[g].parent \in TableIds(chash')
             /\ g \in ListenIds'
             /\ groups'[g].parent = groups[g].parent
             /\ conns'[groups[g].parent].state = TCP_DEAD
             /\ conns'[groups[g].parent].linger_secs = now + LINGER_MAX_TIME]_vars

\* C28, amended: with lingering enabled or not, the purge of a round removes
\* a listening parent that was not observed in the round from the table at
\* once: the parent is never set to DEAD and never lingers, its group has no
\* parent afterwards and stays on the listening list exactly when it has a
\* member left (an untouched member lingers when lingering is enabled).
C28_ParentNeverLingers ==
    /\ [](\A g \in ParentedListenIds : conns[groups[g].parent].state = TCP_LISTEN)
    /\ [][PurgeCalled =>
             \A g \in UnseenParents :
                /\ groups[g].parent \notin TableIds(chash')
                /\ groups[g].parent \notin DOMAIN conns'
                /\ IF g \in ListenIds'
                   THEN /\ groups'[g].parent = NULL
                        /\ groups'[g].q # << >>
                   ELSE Range(groups[g].q) \cap TableIds(chash') = {}
                /\ linger => \A id \in Range(groups[g].q) :
                                (~metadata_is_touched(conns[id].flags)
                                 /\ conns[id].state # TCP_DEAD) =>
                                    /\ id \in TableIds(chash')
                                    /\ conns'[id].state = TCP_DEAD
                                    /\ conns'[id].linger_secs = now + LINGER_MAX_TIME]_vars

\* C28 happens: with lingering enabled, a purge has removed the parent of a
\* listening group and left a member of the group lingering
C28_Witness ==
    /\ pc = "view"
    /\ linger
    /\ \E g \in ListenIds :
          /\ groups[g].parent = NULL
          /\ \E id \in Range(groups[g].q) :
                /\ conns[id].state = TCP_DEAD
                /\ conns[id].linger_secs = now + LINGER_MAX_TIME

\* the interface category of filter f holds for record r
IfHolds(f, r) == r.ifname = f.ifname \/ r.ifname = NoName \/ f.ifname = NoName

\* C30: for a filter whose policy contains INTERFACE the interface category
\* holds for a record when the two interface names are equal, and also when
\* the name of the record or of the filter is not set; it fails only when
\* both names are set and differ.  A filter of the interface category alone
\* matches exactly when the category holds, any filter with the category
\* matches only when it holds.
C30_InterfaceCategory ==
    \A i \in 1 .. Len(filters) :
        HasBit(filters[i].policy, POLICY_IF) =>
           /\ filter_match(filters[i], conns[1]) # 0 => IfHolds(filters[i], conns[1])
           /\ filters[i].policy = POLICY_IF =>
                 (filter_match(filters[i], conns[1]) = 1 <=> IfHolds(filters[i], conns[1]))
           /\ ~IfHolds(filters[i], conns[1]) <=>
                 /\ conns[1].ifname # NoName
                 /\ filters[i].ifname # NoName
                 /\ conns[1].ifname # filters[i].ifname
           /\ (ret.call = "filter_match" /\ ret.arg = i) =>
                 ret.rv = filter_match(filters[i], conns[1])

\* C30 happens: filter_match has returned 1 for a filter by interface whose
\* name is not set and a record on a named interface, and the chain holds a
\* filter by another interface, which does not match the record
C30_Witness ==
    /\ ret.call = "filter_match"
    /\ ret.rv = 1
    /\ filters[ret.arg].policy = POLICY_IF
    /\ filters[ret.arg].ifname = NoName
    /\ conns[1].ifname # NoName
    /\ \E i \in 1 .. Len(filters) :
          /\ filters[i].policy = POLICY_IF
          /\ filters[i].ifname \notin {NoName, conns[1].ifname}
          /\ filter_match(filters[i], conns[1]) = 0

\* the pidinfo a new observation with this inode is given to (a position
\* of ctx->pinfo, NULL when no followed process holds the inode), and its
\* group
Follower(inode) == get_pidinfo_by_inode(inode, pinfo)

\* the observation is discarded: no record, and the table, the counters,
\* the groups, the queue and the lists are as before
Discarded ==
    /\ conns' = conns
    /\ chash' = chash
    /\ new_count' = new_count
    /\ total_count' = total_count
    /\ groups' = groups
    /\ newq' = newq
    /\ listen_groups' = listen_groups
    /\ out_groups' = out_groups
    /\ pinfo' = pinfo

\* the observation has made a record that is in the table and a member of
\* group g
CreatedIn(k, g) ==
    \E id \in DOMAIN conns' \ DOMAIN conns :
       /\ chash_get(chash', conns', Tuples[k].laddr, Tuples[k].raddr) = id
       /\ conns'[id].group = g
       /\ id \in Range(groups'[g].q)
       /\ groups'[g].parent = NULL

\* in follow mode nothing is ever on the pending queue or the two lists
NoQueueNoLists == newq = << >> /\ listen_groups = << >> /\ out_groups = << >>

Unflagged ==
    {id \in TableIds(chash) :
        /\ ~HasBit(conns[id].flags, METADATA_NEW)
        /\ ~HasBit(conns[id].flags, METADATA_STATE_CHANGED)
        /\ ~HasBit(conns[id].flags, METADATA_UPDATED)}

\* C24: where main decides the purge (non-follow mode: after
\* rotate_new_queue; follow mode: after the scouts, whenever they are done)
\* the size of the table minus total_count is the number of records of the
\* table that carry none of NEW, STATE_CHANGED and UPDATED.
C24_DeltaCountsUnobserved ==
    pc \in {"rotated", "pscout"} =>
       chash.size - total_count = Cardinality(Unflagged)

\* C24 happens: in follow mode main decides the purge after an observation
\* was discarded (its tuple was reported and is not tracked) while a record
\* left lingering by an earlier round is in the table
C24_Witness ==
    /\ pc = "pscout"
    /\ \E k \in seen : Tracked(k) = NULL
    /\ \E id \in Unflagged : conns[id].state = TCP_DEAD
    /\ chash.size - total_count > 0

\* the distance in seconds between the creation of a record and the stamp
\* of a filter
StampDistance(f, r) ==
    IF r.added >= f.cloud_stamp THEN r.added - f.cloud_stamp
    ELSE f.cloud_stamp - r.added

\* C31, as the specification words it: for a filter whose policy contains
\* the time window the category holds exactly when the record was created
\* less than 2 seconds before or after the stamp of the filter, so such a
\* filter matches no record created 2 or more seconds before its stamp and
\* none created 2 or more seconds after it.
C31_AsStated ==
    \A i \in 1 .. Len(filters) :
        ( /\ HasBit(filters[i].policy, POLICY_CLOUD)
          /\ StampDistance(filters[i], conns[1]) >= CLOUD_TIME_LIMIT )
        => filter_match(filters[i], conns[1]) = 0

\* C32, as the specification words it: for every record r and every set s
\* of selector flags, the filter filter_from_connection makes of r with s
\* matches r when filter_match is called right after (the stamp of the
\* filter is the second the record was created in).
C32_AsStated ==
    \A pol \in FiltPolicies :
        filter_match(filter_from_connection(conns[1], pol, FILTERACT_GROUP,
                                            conns[1].added), conns[1]) # 0

\* uint32_t values as halves: a <= b, and b is a + 1 modulo 2^32
U32Leq(a, b) == a.hi < b.hi \/ (a.hi = b.hi /\ a.lo <= b.lo)

U32Next(a, b) ==
    \/ a.lo < HALF_MOD - 1 /\ b.hi = a.hi /\ b.lo = a.lo + 1
    \/ a.lo = HALF_MOD - 1 /\ b.lo = 0 /\ b.hi = (a.hi + 1) % HALF_MOD

\* the call of this step evaluates the filter at place i of the chain:
\* filter_match is called on it, or filtlist_match reaches it
Evaluated(i) ==
    IF ret'.call = "filter_match" THEN i = ret'.arg
    ELSE list_policy = LAST_MATCH
         \/ \A j \in 1 .. (i - 1) : filter_match(filters[j], conns[1]) = 0

\* C33, as the specification words it: the match counter of a filter never
\* exceeds its evaluation counter, after any sequence of calls.
C33_AsStated ==
    \A i \in 1 .. Len(filters) : U32Leq(filters[i].matches, filters[i].evals)

\* C33, amended: every call of filter_match on a filter increases its
\* evaluation counter by 1 modulo 2^32 and its match counter by 1 modulo
\* 2^32 exactly when the call returns true, a filter the call does not
\* evaluate keeps its counters; the match counter stays at or below the
\* evaluation counter in every call but the one in which the evaluation
\* counter wraps to 0.
C33_CountersModulo ==
    [][nobs' # nobs =>
         \A i \in 1 .. Len(filters) :
            /\ IF Evaluated(i)
               THEN /\ U32Next(filters[i].evals, filters'[i].evals)
                    /\ IF filter_match(filters[i], conns[1]) # 0
                       THEN U32Next(filters[i].matches, filters'[i].matches)
                       ELSE filters'[i].matches = filters[i].matches
               ELSE /\ filters'[i].evals = filters[i].evals
                    /\ filters'[i].matches = filters[i].matches
            /\ ( /\ U32Leq(filters[i].matches, filters[i].evals)
                 /\ filters'[i].evals # [hi |-> 0, lo |-> 0] )
               => U32Leq(filters'[i].matches, filters'[i].evals)
    ]_vars

\* C33 happens: one call on the chain has evaluated a filter whose
\* evaluation counter has wrapped to 0 with a match counter above it, and a
\* fresh filter that did not match
C33_Witness ==
    /\ nobs = 1
    /\ Len(filters) = 2
    /\ \E i, j \in 1 .. 2 :
          /\ filters[i].evals = [hi |-> 0, lo |-> 0]
          /\ filters[i].matches = [hi |-> 0, lo |-> 2]
          /\ filters[j].evals = [hi |-> 0, lo |-> 1]
          /\ filters[j].matches = [hi |-> 0, lo |-> 0]

\* the queue as the sequence of the connections from its head on
QueueSeq(L) == FollowNext(L, L.head, MaxQueue + 1)

\* the size field counts the connections reachable from the head, which are
\* distinct, and next and prev agree: the head has no prev, each connection
\* is the prev of its next, and a connection off the queue has neither
QueueLinked(L) ==
    LET q == QueueSeq(L)
    IN  /\ L.size = Len(q)
        /\ \A i, j \in 1 .. Len(q) : q[i] = q[j] => i = j
        /\ \A i \in 1 .. Len(q) :
              /\ L.prev[q[i]] = IF i = 1 THEN NULL ELSE q[i - 1]
              /\ L.next[q[i]] = IF i = Len(q) THEN NULL ELSE q[i + 1]
        /\ \A c \in 1 .. MaxQueue :
              c \notin Range(q) => L.next[c] = NULL /\ L.prev[c] = NULL

\* C34: the connection queue refines a sequence of distinct records:
\* cqueue_push prepends, cqueue_pop removes and returns the first element
\* and returns NULL on an empty queue without changing it, cqueue_remove of
\* a member at the head, in the middle or at the tail deletes exactly that
\* member and keeps the order of the others, and after every such operation
\* the size field is the number of records reachable from the head and the
\* prev and next links are mutually consistent.
C34_QueueRefinesSequence ==
    [][pc = "queue" =>
         /\ ret'.call = "cqueue_push" =>
               /\ QueueSeq(newq') = <<ret'.arg>> \o QueueSeq(newq)
               /\ ret'.rv = Len(QueueSeq(newq'))
         /\ ret'.call = "cqueue_pop" =>
               IF QueueSeq(newq) = << >>
               THEN ret'.rv = NULL /\ newq' = newq
               ELSE /\ ret'.rv = Head(QueueSeq(newq))
                    /\ QueueSeq(newq') = Tail(QueueSeq(newq))
         /\ ret'.call = "cqueue_remove" =>
               /\ cursor' \in 1 .. Len(QueueSeq(newq))
               /\ QueueSeq(newq)[cursor'] = ret'.arg
               /\ QueueSeq(newq') =
                     SubSeq(QueueSeq(newq), 1, cursor' - 1)
                     \o SubSeq(QueueSeq(newq), cursor' + 1, Len(QueueSeq(newq)))
               /\ ret'.rv = Len(QueueSeq(newq'))
         /\ QueueLinked(newq')
    ]_vars

\* C34 happens: a connection has been removed from the middle of a queue of
\* three, which leaves the two around it linked to one another
C34_Witness ==
    /\ pc = "queue"
    /\ ret.call = "cqueue_remove"
    /\ cursor = 2
    /\ Len(QueueSeq(newq)) = 2
    /\ newq.next[newq.head] # NULL

\* C40, as the specification words it: in the build without assertions
\* mem_alloc aborts the process exactly when the allocation fails, and
\* returns the block and lets the program go on when it succeeds.
C40_AsStated ==
    (ret.call = "cqueue_init" /\ ~ret.arg.assertions)
    => /\ pc = "abort" <=> ~ret.arg.ok
       /\ ret.arg.ok => ret.rv # NULL

\* the grouping policies whose groups have a key: by remote address, by
\* remote port, by remote address and port, by state
KeyedPolicies ==
    { POLICY_REMOTE + POLICY_ADDR, POLICY_REMOTE + POLICY_PORT,
      POLICY_REMOTE + POLICY_ADDR + POLICY_PORT, POLICY_STATE }

\* the key of a group under the policy of its filter
GroupKey(g) ==
    LET f == groups[g].filter
    IN  CASE f.policy = POLICY_REMOTE + POLICY_ADDR -> <<"addr", f.raddr.addr>>
          [] f.policy = POLICY_REMOTE + POLICY_PORT -> <<"port", f.raddr.port>>
          [] f.policy = POLICY_REMOTE + POLICY_ADDR + POLICY_PORT ->
                <<"addr and port", f.raddr.addr, f.raddr.port>>
          [] f.policy = POLICY_STATE -> <<"state", f.state>>

\* C35: under the grouping policies by remote address, by remote port, by
\* remote address and port and by state, after any rounds and
\* switch_grouping calls (and in every state between) no two groups of the
\* outbound list have the same key.
C35_OutboundKeysUnique ==
    \A i, j \in 1 .. Len(out_groups) :
        ( /\ i # j
          /\ groups[out_groups[i]].filter.policy \in KeyedPolicies
          /\ groups[out_groups[j]].filter.policy = groups[out_groups[i]].filter.policy )
        => GroupKey(out_groups[i]) # GroupKey(out_groups[j])

\* C35 happens: after a switch_grouping the outbound list holds two groups
\* by remote address, one of them with two members
C35_Witness ==
    /\ pc = "scout"
    /\ nobs = 0
    /\ keys < MaxKeys
    /\ common_policy = POLICY_REMOTE + POLICY_ADDR
    /\ Len(out_groups) = 2
    /\ \E g \in OutIds : Len(groups[g].q) >= 2

\* a listening group matches connection id
ListenerFor(id) == \E g \in ListenIds : group_match(groups[g], conns[id]) = 1

IgnoreGroupIds ==
    {filters[i].group : i \in {j \in 1 .. Len(filters) : filters[j].action = FILTERACT_IGNORE}}

\* record id is kept away from the classification: it is in the table and a
\* member of the group of an IGNORE filter, it is not on the pending queue
\* and neither a member nor the parent of a listening or outbound group
KeptAside(id) ==
    /\ id \in TableIds(chash)
    /\ conns[id].group \in IgnoreGroupIds
    /\ id \in Range(groups[conns[id].group].q)
    /\ id \notin Range(newq)
    /\ id \notin ListenMembers \cup OutMembers
    /\ \A g \in ListenIds \cup OutIds : groups[g].parent # id

Revived(id) == conns[id].linger_secs # 0 /\ conns[id].state # TCP_DEAD

\* C38: a lingering record (state DEAD, deadline not yet passed) that is
\* observed again takes the observed state and is flagged STATE_CHANGED and
\* UPDATED; the purge of that round does not remove it and it is then a
\* member of exactly one group; when it is missed again in a later round,
\* the purge of that round gives it a deadline LINGER_MAX_TIME seconds after
\* that purge.
C38_RevivedThenFreshGrace ==
    [][/\ \A k \in ListenKeys : \A st \in ObsStates(k) :
             ( /\ Insert(k, st)
               /\ Tracked(k) # NULL
               /\ conns[Tracked(k)].state = TCP_DEAD
               /\ now <= conns[Tracked(k)].linger_secs )
             => /\ Tracked(k) \in DOMAIN conns'
                /\ conns'[Tracked(k)].state = st
                /\ HasBit(conns'[Tracked(k)].flags, METADATA_STATE_CHANGED)
                /\ HasBit(conns'[Tracked(k)].flags, METADATA_UPDATED)
       /\ \A id \in DOMAIN conns :
             (pc = "rotated" /\ Revived(id)
                             /\ HasBit(conns[id].flags, METADATA_STATE_CHANGED)) =>
                /\ id \in DOMAIN conns'
                /\ id \in TableIds(chash')
                /\ conns'[id].state = conns[id].state
                /\ Cardinality(Memberships(id)') = 1
       /\ \A id \in DOMAIN conns :
             (pc = "rotated" /\ Revived(id) /\ Missed(id)) =>
                /\ LingersOn(id)
                /\ conns'[id].linger_secs = now + LINGER_MAX_TIME
    ]_vars

\* C38 happens: the purge of a round has kept a record that had lingered
\* and was observed again in the round, in a group by state
C38_Witness ==
    /\ pc = "view"
    /\ round > 2
    /\ common_policy = POLICY_STATE
    /\ \E id \in DOMAIN conns :
          /\ Revived(id)
          /\ now <= conns[id].linger_secs
          /\ HasBit(conns[id].flags, METADATA_STATE_CHANGED)
          /\ HasBit(conns[id].flags, METADATA_UPDATED)
          /\ conns[id].group \in OutIds
          /\ groups[conns[id].group].filter.state = conns[id].state

\* the scouts have reported the key of record id in the round
ObservedInRound(id) ==
    \E k \in seen : SameKey(conns[id], NewConn(Tuples[k].laddr, Tuples[k].raddr, 0))

\* C39: when the view is rendered after the purge of a round, with
\* lingering disabled every record of the table was observed in that round,
\* and with lingering enabled a record of the table has state DEAD if and
\* only if it was not observed in that round.
C39_ViewSeesObservedOrDead ==
    pc = "view" =>
        \A id \in TableIds(chash) :
            IF linger THEN conns[id].state = TCP_DEAD <=> ~ObservedInRound(id)
            ELSE ObservedInRound(id)

\* C39 happens: the view is rendered in a later round with lingering
\* enabled over a table with a record the round has missed, in state DEAD,
\* and a record the scouts have reported
C39_Witness ==
    /\ pc = "view"
    /\ round > 1
    /\ linger
    /\ \E id \in TableIds(chash) : conns[id].state = TCP_DEAD /\ ~ObservedInRound(id)
    /\ \E id \in TableIds(chash) : conns[id].state # TCP_DEAD /\ ObservedInRound(id)


====
